---- MODULE Spec2Model ----
(***************************************************************************)
(* The cracking engine of Hash-Cracker: CrackingEngine.crack_hash, its     *)
(* work chunker _create_work_chunks and the WorkerProcess.run loop, with   *)
(* the two multiprocessing queues and the shared stop event.               *)
(*                                                                         *)
(* Worker ids and bucket indices are 0-based as in the source; sequences   *)
(* (queues, chunks, the candidate stream) are 1-based TLA+ sequences.      *)
(* A chunk holds stream positions (the origin of a candidate); the value   *)
(* of the candidate at position i is strategy_stream[i].                   *)
(***************************************************************************)
EXTENDS Naturals, Sequences, FiniteSets

\* ------------------------------------------------------------------ bounds
\* Largest max_workers and longest candidate stream of an engine run.
MaxWorkers == 2
MaxStream == 3
\* The same two bounds for the runs of the chunker alone.
ChunkMaxWorkers == 3
ChunkMaxStream == 5
\* chunk_size (50 000 in the source) and WorkerProcess._REPORT_INTERVAL
\* (100 000 in the source), scaled down so that a stream of MaxStream
\* candidates fills several batches and several report intervals.
chunk_size == 2
REPORT_INTERVAL == 2

\* A tick of the clock is half a second: the 0.5 s between two calls of the
\* progress callback, and the ticks a run is observed for.
PROGRESS_INTERVAL == 1
MaxClock == 4

\* ------------------------------------------------------- the collaborators
\* Candidate strings. "pw" and "PW" both hash to the target digest (the
\* digest scheme folds case), "w" hashes to another digest.
Candidates == {"pw", "PW", "w"}
\* A candidate on which HashAlgorithm.verify raises (it cannot be encoded).
ErrCandidates == {"pw", "w", "bad"}
NoPassword == "<None>"
NoTarget == "<None>"
NoError == "<None>"

\* HashAlgorithm.hash: the digest of a plaintext.
hash(c) == IF c \in {"pw", "PW"} THEN "ab" ELSE "cd"

\* HashAlgorithm.normalize_hash: case and whitespace canonicalisation.
normalize_hash(h) ==
    CASE h = "AB " -> "ab"
      [] h = "ab" -> "ab"
      [] OTHER -> h

\* HashAlgorithm.verify(plaintext, digest).
verify(c, normalized_target) == hash(c) = normalized_target

\* HashAlgorithm.verify(plaintext, digest) raises an exception.
verify_raises(c) == c = "bad"

\* The digests a caller may hand to crack_hash.
RawTargets == {"AB ", "ab"}

VARIABLES
    \* CrackingEngine fields
    max_workers, stop_event, result_queue, stats_queue,
    \* the AttackStrategy handed to crack_hash
    strategy_target, strategy_attempts, strategy_stream, pulled,
    \* HashAlgorithm.is_crackable() of the algorithm handed to crack_hash
    crackable,
    \* crack_hash locals
    epc, target_hash, timeout, chunks, worker_idx, work_chunks, workers,
    total_attempts, result, ret,
    \* history: which return path was taken, the 'found' messages the engine
    \* has taken off the result queue, the stats attempts drained per worker,
    \* whether a KeyboardInterrupt was delivered
    outcome, found_received, drained_from, interrupted,
    \* a DictionaryAttack and a BruteForceAttack object with the state of
    \* their generate_candidates generators
    dictionary, brute,
    \* a HybridAttack object with the state of its generator
    hybrid,
    \* a MaskParser.parse_mask call and a validate_mask_pattern call
    parser, validation,
    \* history: the last method a caller invoked on the strategy directly
    last_call,
    \* history: the outcome, target and result of the earlier crack_hash calls
    \* on this engine
    earlier,
    \* MaskParser.CHARACTER_SETS, the custom_charsets of the MaskParser
    \* instances, and a MaskExpander with its parse cache and last answer
    expander,
    \* a TaskScheduler, with the last call made on it as history
    scheduler,
    \* time.time() in ticks, and the progress callback with the crack_hash
    \* locals start_time and last_progress_time and the calls made to it
    clock, progress

vars == <<max_workers, stop_event, result_queue, stats_queue,
          strategy_target, strategy_attempts, strategy_stream, pulled,
          crackable, epc, target_hash, timeout, chunks, worker_idx,
          work_chunks, workers, total_attempts, result, ret,
          outcome, found_received, drained_from, interrupted,
          dictionary, brute, hybrid, parser, validation, last_call, earlier,
          expander, scheduler,
          clock, progress>>

\* What crack_hash and the workers never write: the algorithm's answer to
\* is_crackable(), the strategy objects and the clock.
call_inputs == <<crackable, dictionary, brute, clock>>

\* What crack_hash and the workers never use.
untouched == <<hybrid, parser, validation, last_call, earlier, expander, scheduler>>

mask_tools == <<parser, validation>>

engine_fields == <<max_workers, stop_event, result_queue, stats_queue>>
strategy_fields == <<strategy_target, strategy_attempts, strategy_stream, pulled>>
chunker_locals == <<chunks, worker_idx, work_chunks>>
history == <<outcome, found_received, drained_from, interrupted>>

\* ----------------------------------------------------------------- helpers
Min(a, b) == IF a < b THEN a ELSE b

RECURSIVE SeqsUpTo(_, _)
SeqsUpTo(S, n) ==
    IF n = 0 THEN {<<>>}
    ELSE LET shorter == SeqsUpTo(S, n - 1)
         IN shorter \cup {Append(s, x) : s \in {t \in shorter : Len(t) = n - 1}, x \in S}

\* worker.is_alive(): started and not yet exited. workers[w] is the worker
\* with worker_id w - 1.
is_alive(w) == workers[w].pc # "dead"

NoResult ==
    [found |-> FALSE, password |-> NoPassword, worker_id |-> 0, attempts |-> 0,
     error |-> NoError]
NoReturn == [success |-> FALSE, password |-> NoPassword, attempts |-> 0]

\* CrackingResult(success, password, attempts).
CrackingResult(s, p, a) == [success |-> s, password |-> p, attempts |-> a]

\* DictionaryAttack.__init__ (lines 25-31) on a wordlist file that exists or
\* not, with the given lines; the generator is not started.
NewDictionary(exists, lines, rules) ==
    [pc |-> "new", exists |-> exists, lines |-> lines, apply_rules |-> rules,
     line_no |-> 0, seen |-> {}, out |-> <<>>, wordlist_size |-> 0]

\* No DictionaryAttack built yet: the arguments of the constructor call.
UnbuiltDictionary(exists, lines, rules) ==
    [NewDictionary(exists, lines, rules) EXCEPT !.pc = "unbuilt"]

\* No BruteForceAttack built yet: the arguments of the constructor call.
UnbuiltBrute(mask, min_arg, max_arg) ==
    [pc |-> "unbuilt", mask |-> mask, min_arg |-> min_arg, max_arg |-> max_arg,
     min_length |-> 0, max_length |-> 0, is_str |-> FALSE, character_set |-> <<>>,
     total_combinations |-> 0, length |-> 0, odometer |-> <<>>, out |-> <<>>]

\* The progress callback handed to CrackingEngine (or None) and what
\* crack_hash keeps for it.
NewProgress(callback) ==
    [callback |-> callback, start_time |-> 0, last_progress_time |-> 0, calls |-> <<>>]

\* No method of the strategy was called by the caller.
NoCall == [op |-> "none", matched |-> FALSE, raised |-> FALSE]

\* The objects a run of the engine does not use, not built. A HybridAttack
\* is built from a wordlist file (present or not, with its lines), a mask
\* (<<>> for None and for '') and a mode.
UnbuiltHybrid(exists, lines, mask, mode) ==
    [pc |-> "unbuilt", exists |-> exists, lines |-> lines, mask |-> mask,
     hybrid_mode |-> mode, has_brute |-> FALSE, pending |-> <<>>, out |-> <<>>,
     error |-> NoError]

NoHybrid == UnbuiltHybrid(TRUE, <<>>, <<>>, "dictionary_mask")

\* The argument of a MaskParser.parse_mask call and the locals of the call.
IdleParser(mask) ==
    [pc |-> "idle", mask |-> mask, i |-> 1, components |-> <<>>, length |-> 0,
     total_combinations |-> 0]

\* The argument of a validate_mask_pattern call, the locals of the call and
\* the fields of its result.
IdleValidation(mask) ==
    [pc |-> "idle", mask |-> mask, i |-> 1, length |-> 0, is_valid |-> TRUE,
     errors |-> <<>>, placeholders_used |-> {}, estimated_combinations |-> 0]

\* No worker: assigned_worker = None.
NoWorker == "<None>"

\* TaskScheduler.__init__ (scheduler.py lines 29-34). Task task_n is
\* tasks[n + 1]; last is history.
NewScheduler ==
    [tasks |-> <<>>, task_queue |-> <<>>, worker_assignments |-> <<>>,
     completed_tasks |-> <<>>, total_tasks_created |-> 0,
     last |-> [op |-> "none", task_id |-> 0, popped |-> FALSE, queue |-> <<>>]]

\* No expand_mask call was the last call on the expander.
NoExpansion == [op |-> "none", mask |-> <<>>, raised |-> FALSE, sets |-> <<>>]

\* The MaskParser instances: the one a MaskExpander builds for itself
\* (expander.py line 18) and one more built by a caller.
ExpanderParser == "expander.parser"
Instances == {ExpanderParser, "another MaskParser"}

\* The class MaskParser as defined, nothing assigned yet to its dictionary
\* CHARACTER_SETS (parser.py lines 29-39), no instance with a custom
\* character set (line 42), a MaskExpander with an empty cache (expander.py
\* lines 17-20).
NewExpander ==
    [assigned |-> <<>>,
     custom_charsets |-> [inst \in Instances |-> {}],
     parse_cache |-> <<>>,
     registrations |-> 0,
     last |-> NoExpansion]

NoParser == IdleParser(<<>>)
NoValidation == IdleValidation(<<>>)

\* -------------------------------------------------------------------- Init
\* The state after CrackingEngine(max_workers) and after the caller built
\* the strategy (possibly used before: a target set, attempts counted; its
\* wordlist file, if it reads one, present or not), with candidates drawn
\* from cands; the engine was given a progress callback or not.
InitSupplied(maxW, maxS, cands, callback) ==
    /\ max_workers \in 1..maxW
    /\ stop_event = FALSE
    /\ result_queue = <<>>
    /\ stats_queue = <<>>
    /\ strategy_target \in {NoTarget, "cd"}
    /\ strategy_attempts \in {0, 1}
    /\ strategy_stream \in SeqsUpTo(cands, maxS)
    /\ pulled = 0
    /\ crackable \in BOOLEAN
    /\ epc = "idle"
    /\ target_hash = NoTarget
    /\ timeout = FALSE
    /\ chunks = <<>>
    /\ worker_idx = 0
    /\ work_chunks = <<>>
    /\ workers = <<>>
    /\ total_attempts = 0
    /\ result = NoResult
    /\ ret = NoReturn
    /\ outcome = "none"
    /\ found_received = <<>>
    /\ drained_from = <<>>
    /\ interrupted = FALSE
    /\ dictionary \in {NewDictionary(e, <<>>, FALSE) : e \in BOOLEAN}
    /\ brute = UnbuiltBrute(<<>>, 0, 0)
    /\ hybrid = NoHybrid
    /\ parser = NoParser
    /\ validation = NoValidation
    /\ last_call = NoCall
    /\ earlier = <<>>
    /\ expander = NewExpander
    /\ scheduler = NewScheduler
    /\ clock = 0
    /\ progress = NewProgress(callback)

\* The engine built without a progress callback.
InitFrom(maxW, maxS, cands) == InitSupplied(maxW, maxS, cands, FALSE)

InitWith(maxW, maxS) == InitFrom(maxW, maxS, Candidates)

Init == InitWith(MaxWorkers, MaxStream)

\* ------------------------------------------------------------ crack_hash
\* Mutant of CrackHash: the strategy is set up before the validation.
\* Lines 70 and 105: start_time = time.time() and, from it, the crack_hash
\* local last_progress_time.
Timed(p) == [p EXCEPT !.start_time = clock, !.last_progress_time = clock]

CrackHash_SetupFirst(t, tmo) ==
    /\ epc = "idle"
    /\ target_hash' = t
    /\ timeout' = tmo
    /\ strategy_target' = normalize_hash(t)
    /\ strategy_attempts' = 0
    /\ IF ~crackable
       THEN /\ ret' = CrackingResult(FALSE, NoPassword, 0)
            /\ epc' = "done"
            /\ outcome' = "NotCrackable"
            /\ UNCHANGED <<chunks, worker_idx>>
       ELSE /\ chunks' = [b \in 1..max_workers |-> <<>>]
            /\ worker_idx' = 0
            /\ epc' = "chunking"
            /\ UNCHANGED <<ret, outcome>>
    /\ progress' = Timed(progress)
    /\ UNCHANGED <<engine_fields, strategy_stream, pulled, call_inputs, untouched,
                   work_chunks, workers, total_attempts, result, found_received,
                   drained_from, interrupted>>

\* crack_hash lines 70-86 and _create_work_chunks lines 188-191: the
\* is_crackable() validation, then set_target, reset_stats and the empty
\* buckets of the chunker.
CrackHash(t, tmo) ==
    /\ epc = "idle"
    /\ target_hash' = t
    /\ timeout' = tmo
    /\ IF ~crackable
       THEN /\ ret' = CrackingResult(FALSE, NoPassword, 0)
            /\ epc' = "done"
            /\ outcome' = "NotCrackable"
            /\ UNCHANGED <<strategy_target, strategy_attempts, chunks, worker_idx>>
       ELSE /\ strategy_target' = normalize_hash(t)
            /\ strategy_attempts' = 0
            /\ chunks' = [b \in 1..max_workers |-> <<>>]
            /\ worker_idx' = 0
            /\ epc' = "chunking"
            /\ UNCHANGED <<ret, outcome>>
    /\ progress' = Timed(progress)
    /\ UNCHANGED <<engine_fields, strategy_stream, pulled, call_inputs, untouched,
                   work_chunks, workers, total_attempts, result, found_received,
                   drained_from, interrupted>>

\* itertools.islice(candidate_iter, chunk_size): the next up to chunk_size
\* stream positions after the `pulled` ones already consumed.
Batch ==
    [k \in 1..(Min(pulled + chunk_size, Len(strategy_stream)) - pulled) |-> pulled + k]

\* Mutant of NextWorkerIdx: the index stops at the last bucket instead of
\* wrapping around.
NextWorkerIdx_NoWrap(i) == IF i + 1 < max_workers THEN i + 1 ELSE i

\* worker_idx = (worker_idx + 1) % self.max_workers
NextWorkerIdx(i) == (i + 1) % max_workers

IsNonEmpty(c) == c # <<>>

\* Mutant of ReturnedChunks: the empty buckets are not dropped.
ReturnedChunks_Unfiltered(cs) == cs

\* chunks = [c for c in chunks if c]; return chunks if chunks else [[]]
ReturnedChunks(cs) ==
    LET kept == SelectSeq(cs, IsNonEmpty)
    IN IF kept # <<>> THEN kept ELSE << <<>> >>

\* dictionary.py lines 44-45: the first next() on the generator raises
\* FileNotFoundError when the wordlist file does not exist.
GenerationFails(d) == ~d.exists

\* Mutant of PullBatch: the generator's error is swallowed and the stream
\* taken as empty.
PullBatch_SwallowsError ==
    /\ epc = "chunking"
    /\ IF GenerationFails(dictionary) \/ Batch = <<>>
       THEN /\ work_chunks' = ReturnedChunks(chunks)
            /\ epc' = "starting"
            /\ UNCHANGED <<chunks, worker_idx, pulled>>
       ELSE /\ chunks' = [chunks EXCEPT ![worker_idx + 1] = @ \o Batch]
            /\ worker_idx' = NextWorkerIdx(worker_idx)
            /\ pulled' = pulled + Len(Batch)
            /\ UNCHANGED <<work_chunks, epc>>
    /\ UNCHANGED <<engine_fields, strategy_target, strategy_attempts, strategy_stream,
                   call_inputs, untouched, progress, target_hash, timeout, workers, total_attempts, result,
                   ret, history>>

\* Mutant of PullBatch: the chunker returns after the first batch.
PullBatch_FirstBatchOnly ==
    /\ epc = "chunking"
    /\ IF GenerationFails(dictionary)
       THEN /\ epc' = "raised"
            /\ outcome' = "FileNotFoundError"
            /\ UNCHANGED <<chunks, worker_idx, pulled, work_chunks>>
       ELSE /\ chunks' = [chunks EXCEPT ![worker_idx + 1] = @ \o Batch]
            /\ worker_idx' = NextWorkerIdx(worker_idx)
            /\ pulled' = pulled + Len(Batch)
            /\ work_chunks' = ReturnedChunks(chunks')
            /\ epc' = "starting"
            /\ UNCHANGED outcome
    /\ UNCHANGED <<engine_fields, strategy_target, strategy_attempts, strategy_stream,
                   call_inputs, untouched, progress, target_hash, timeout, workers, total_attempts, result,
                   ret, found_received, drained_from, interrupted>>

\* One turn of the `while True` loop of _create_work_chunks, lines 192-201.
\* An exception of the generator leaves crack_hash (line 86 is in no try).
PullBatch ==
    /\ epc = "chunking"
    /\ IF GenerationFails(dictionary)
       THEN /\ epc' = "raised"
            /\ outcome' = "FileNotFoundError"
            /\ UNCHANGED <<chunks, worker_idx, pulled, work_chunks>>
       ELSE /\ IF Batch = <<>>
               THEN /\ work_chunks' = ReturnedChunks(chunks)
                    /\ epc' = "starting"
                    /\ UNCHANGED <<chunks, worker_idx, pulled>>
               ELSE /\ chunks' = [chunks EXCEPT ![worker_idx + 1] = @ \o Batch]
                    /\ worker_idx' = NextWorkerIdx(worker_idx)
                    /\ pulled' = pulled + Len(Batch)
                    /\ UNCHANGED <<work_chunks, epc>>
            /\ UNCHANGED outcome
    /\ UNCHANGED <<engine_fields, strategy_target, strategy_attempts, strategy_stream,
                   call_inputs, untouched, progress, target_hash, timeout, workers, total_attempts, result,
                   ret, found_received, drained_from, interrupted>>

\* WorkerProcess.__init__: a worker at the head of its loop, nothing counted.
\* The other fields are history: `late` counts the verification calls the
\* worker made with the stop event set, `saw_stop` is the value the stop
\* event had at the worker's last loop check, `calls` counts its verification
\* calls, `tested` lists the stream positions it verified, `sent` lists the
\* messages it put (<<"result", m>> or <<"stats", m>>) and `raised` tells
\* that a verification call raised.
NewWorker(chunk) ==
    [pc |-> "check", chunk |-> chunk, pos |-> 1, attempts |-> 0, since |-> 0,
     late |-> 0, saw_stop |-> FALSE, calls |-> 0, tested |-> <<>>, sent |-> <<>>,
     raised |-> FALSE]

\* Mutant of StartWorker: every worker is handed the first chunk.
StartWorker_FirstChunk ==
    /\ epc = "starting"
    /\ IF Len(workers) < Min(max_workers, Len(work_chunks))
       THEN /\ workers' = Append(workers, NewWorker(work_chunks[1]))
            /\ drained_from' = Append(drained_from, 0)
            /\ UNCHANGED <<epc, total_attempts>>
       ELSE /\ total_attempts' = 0
            /\ epc' = "alive_check"
            /\ UNCHANGED <<workers, drained_from>>
    /\ UNCHANGED <<engine_fields, strategy_fields, call_inputs, untouched, progress, target_hash, timeout,
                   chunker_locals, result, ret, outcome, found_received, interrupted>>

\* One turn of the start loop, lines 89-105: worker i gets work_chunks[i].
StartWorker ==
    /\ epc = "starting"
    /\ IF Len(workers) < Min(max_workers, Len(work_chunks))
       THEN /\ workers' = Append(workers, NewWorker(work_chunks[Len(workers) + 1]))
            /\ drained_from' = Append(drained_from, 0)
            /\ UNCHANGED <<epc, total_attempts>>
       ELSE /\ total_attempts' = 0
            /\ epc' = "alive_check"
            /\ UNCHANGED <<workers, drained_from>>
    /\ UNCHANGED <<engine_fields, strategy_fields, call_inputs, untouched, progress, target_hash, timeout,
                   chunker_locals, result, ret, outcome, found_received, interrupted>>

\* Line 108, `while any(worker.is_alive() ...)`, and the failure return of
\* lines 162-170 when the loop ends.
AliveCheck ==
    /\ epc = "alive_check"
    /\ IF \E w \in DOMAIN workers : is_alive(w)
       THEN /\ epc' = "get_result"
            /\ UNCHANGED <<ret, outcome>>
       ELSE /\ ret' = CrackingResult(FALSE, NoPassword, total_attempts)
            /\ epc' = "done"
            /\ outcome' = "Exhausted"
    /\ UNCHANGED <<engine_fields, strategy_fields, call_inputs, untouched, progress, target_hash, timeout,
                   chunker_locals, workers, total_attempts, result, found_received,
                   drained_from, interrupted>>

IsFound(m) == m.found

\* Mutant of GetResult: on a 'found' message the engine goes on reading the
\* 'found' messages queued behind it and keeps the last one.
GetResult_LastWins ==
    /\ epc = "get_result"
    /\ IF result_queue # <<>>
       THEN /\ IF Head(result_queue).found
               THEN LET founds == SelectSeq(result_queue, IsFound)
                    IN /\ result' = founds[Len(founds)]
                       /\ result_queue' = <<>>
                       /\ stop_event' = TRUE
                       /\ found_received' = found_received \o founds
                       /\ epc' = "found_join"
               ELSE /\ result' = Head(result_queue)
                    /\ result_queue' = Tail(result_queue)
                    /\ epc' = "drain_stats"
                    /\ UNCHANGED <<stop_event, found_received>>
       ELSE /\ epc' = "drain_stats"
            /\ UNCHANGED <<result, result_queue, stop_event, found_received>>
    /\ UNCHANGED <<max_workers, stats_queue, strategy_fields, call_inputs, untouched, progress, target_hash,
                   timeout, chunker_locals, workers, total_attempts, ret, outcome,
                   drained_from, interrupted>>

\* Mutant of GetResult: result_queue.get() without a timeout, which waits
\* until a message is there.
GetResult_Blocking ==
    /\ epc = "get_result"
    /\ result_queue # <<>>
    /\ result' = Head(result_queue)
    /\ result_queue' = Tail(result_queue)
    /\ IF Head(result_queue).found
       THEN /\ stop_event' = TRUE
            /\ found_received' = Append(found_received, Head(result_queue))
            /\ epc' = "found_join"
       ELSE /\ epc' = "drain_stats"
            /\ UNCHANGED <<stop_event, found_received>>
    /\ UNCHANGED <<max_workers, stats_queue, strategy_fields, call_inputs, untouched, progress, target_hash,
                   timeout, chunker_locals, workers, total_attempts, ret, outcome,
                   drained_from, interrupted>>

\* Lines 111-131: result_queue.get(timeout=0.05). A message is taken if one
\* is there; on a 'found' message the stop event is set. With the queue
\* empty the get times out (queue.Empty, swallowed).
GetResult ==
    /\ epc = "get_result"
    /\ IF result_queue # <<>>
       THEN /\ result' = Head(result_queue)
            /\ result_queue' = Tail(result_queue)
            /\ IF Head(result_queue).found
               THEN /\ stop_event' = TRUE
                    /\ found_received' = Append(found_received, Head(result_queue))
                    /\ epc' = "found_join"
               ELSE /\ epc' = "drain_stats"
                    /\ UNCHANGED <<stop_event, found_received>>
       ELSE /\ epc' = "drain_stats"
            /\ UNCHANGED <<result, result_queue, stop_event, found_received>>
    /\ UNCHANGED <<max_workers, stats_queue, strategy_fields, call_inputs, untouched, progress, target_hash,
                   timeout, chunker_locals, workers, total_attempts, ret, outcome,
                   drained_from, interrupted>>

\* Lines 118-129: the bounded joins (each returns after at most 1 s, the
\* worker dead or not) and the success result.
FoundReturn ==
    /\ epc = "found_join"
    /\ ret' = CrackingResult(TRUE, result.password, result.attempts + total_attempts)
    /\ epc' = "done"
    /\ outcome' = "Found"
    /\ UNCHANGED <<engine_fields, strategy_fields, call_inputs, untouched, progress, target_hash, timeout,
                   chunker_locals, workers, total_attempts, result, found_received,
                   drained_from, interrupted>>

ProgressDue_Always(now) == progress.callback

\* Line 143: a callback was supplied and the last call to it is more than
\* 0.5 s ago.
ProgressDue(now) ==
    progress.callback /\ now - progress.last_progress_time > PROGRESS_INTERVAL

\* The dictionary handed to the callback (lines 144-148).
ProgressInfo(total, now) ==
    [attempts |-> total,
     elapsed_time |-> now - progress.start_time,
     workers_active |-> Cardinality({w \in DOMAIN workers : is_alive(w)}),
     now |-> now]

\* Lines 144-149: the callback is called and the time of the call is kept.
Called(p, info) ==
    [p EXCEPT !.calls = Append(@, info), !.last_progress_time = info.now]

RECURSIVE StatsOf(_, _)
\* The attempts of the stats messages of worker_id `id` in queue q.
StatsOf(q, id) ==
    IF q = <<>> THEN 0
    ELSE (IF Head(q).worker_id = id THEN Head(q).attempts ELSE 0) + StatsOf(Tail(q), id)

RECURSIVE StatsTotal(_)
StatsTotal(q) == IF q = <<>> THEN 0 ELSE Head(q).attempts + StatsTotal(Tail(q))

\* Lines 133-139: drain the stats queue into total_attempts.
DrainStats ==
    /\ epc = "drain_stats"
    /\ total_attempts' = total_attempts + StatsTotal(stats_queue)
    /\ drained_from' = [w \in DOMAIN drained_from |->
                           drained_from[w] + StatsOf(stats_queue, w - 1)]
    /\ stats_queue' = <<>>
    /\ progress' = IF ProgressDue(clock)
                   THEN Called(progress, ProgressInfo(total_attempts', clock))
                   ELSE progress
    /\ epc' = "check_timeout"
    /\ UNCHANGED <<max_workers, stop_event, result_queue, strategy_fields, call_inputs,
                   untouched, target_hash, timeout, chunker_locals, workers, result,
                   ret, outcome, found_received, interrupted>>

\* Lines 151-154 and 162-170: with a timeout supplied and elapsed, set the
\* stop event, break and return the failure result.
CheckTimeout ==
    /\ epc = "check_timeout"
    /\ \E elapsed \in BOOLEAN :
         IF timeout /\ elapsed
         THEN /\ stop_event' = TRUE
              /\ ret' = CrackingResult(FALSE, NoPassword, total_attempts)
              /\ epc' = "done"
              /\ outcome' = "TimedOut"
         ELSE /\ epc' = "alive_check"
              /\ UNCHANGED <<stop_event, ret, outcome>>
    /\ UNCHANGED <<max_workers, result_queue, stats_queue, strategy_fields, call_inputs, untouched, progress,
                   target_hash, timeout, chunker_locals, workers, total_attempts,
                   result, found_received, drained_from, interrupted>>

\* The engine positions inside the try block of lines 107-155.
InTry == {"alive_check", "get_result", "found_join", "drain_stats", "check_timeout"}

\* Lines 156-157: a KeyboardInterrupt delivered inside the try block.
Interrupt ==
    /\ epc \in InTry
    /\ ~interrupted
    /\ interrupted' = TRUE
    /\ stop_event' = TRUE
    /\ epc' = "interrupt_join"
    /\ UNCHANGED <<max_workers, result_queue, stats_queue, strategy_fields, call_inputs, untouched, progress,
                   target_hash, timeout, chunker_locals, workers, total_attempts,
                   result, ret, outcome, found_received, drained_from>>

\* Lines 158-170: the bounded joins of the handler, then the failure result.
InterruptReturn ==
    /\ epc = "interrupt_join"
    /\ ret' = CrackingResult(FALSE, NoPassword, total_attempts)
    /\ epc' = "done"
    /\ outcome' = "Interrupted"
    /\ UNCHANGED <<engine_fields, strategy_fields, call_inputs, untouched, progress, target_hash, timeout,
                   chunker_locals, workers, total_attempts, result, found_received,
                   drained_from, interrupted>>

\* ------------------------------------------------------ WorkerProcess.run
worker_frame == <<max_workers, strategy_fields, call_inputs, untouched, progress, epc, target_hash, timeout,
                  chunker_locals, total_attempts, result, ret, history>>

\* Mutant of stop_is_set: the worker never looks at the stop event.
stop_is_set_Never == FALSE

\* stop_is_set(), line 52.
stop_is_set == stop_event

\* Lines 51-53: the next candidate of the chunk, if any, and the stop check.
WorkerCheck(w) ==
    /\ workers[w].pc = "check"
    /\ workers' = [workers EXCEPT
                      ![w].pc = IF workers[w].pos > Len(workers[w].chunk) THEN "flush"
                                ELSE IF stop_is_set THEN "flush"
                                ELSE "verify",
                      ![w].saw_stop = stop_event]
    /\ UNCHANGED <<stop_event, result_queue, stats_queue, worker_frame>>

FoundMsg(w) ==
    [found |-> TRUE,
     password |-> strategy_stream[workers[w].chunk[workers[w].pos]],
     worker_id |-> w - 1,
     attempts |-> workers[w].attempts,
     error |-> NoError]

\* Mutant of NotFoundMsg: the message carries the attempts since the last
\* stats report.
NotFoundMsg_SinceReport(w) ==
    [found |-> FALSE, password |-> NoPassword, worker_id |-> w - 1,
     attempts |-> workers[w].since, error |-> NoError]

\* Lines 84-89: the 'not found' message.
NotFoundMsg(w) ==
    [found |-> FALSE, password |-> NoPassword, worker_id |-> w - 1,
     attempts |-> workers[w].attempts, error |-> NoError]

\* Lines 92-97: the 'not found' message of the except branch, with str(e).
ErrorMsg(w) ==
    [found |-> FALSE, password |-> NoPassword, worker_id |-> w - 1,
     attempts |-> workers[w].attempts, error |-> "error"]

StatsMsg(w, n) == [worker_id |-> w - 1, attempts |-> n]

\* The worker record with one more message in its history of puts.
Sent(me, kind, m) == [me EXCEPT !.sent = Append(@, <<kind, m>>)]

\* Mutant of AfterFound: the `return` is missing and the loop goes on.
AfterFound_Continues(me) == [me EXCEPT !.pos = @ + 1, !.pc = "check"]

\* Line 62: `return` after the 'found' message.
AfterFound(me) == [me EXCEPT !.pc = "finished"]

\* Mutant of OnVerifyError: the exception is not caught, the process dies
\* with nothing sent.
OnVerifyError_Uncaught(w, called) ==
    /\ workers' = [workers EXCEPT ![w] = [called EXCEPT !.pc = "dead", !.raised = TRUE]]
    /\ UNCHANGED <<result_queue, stats_queue>>

\* Lines 91-97: an exception of the verification call is caught, a 'not
\* found' message with the error text is put and run() returns. `called` is
\* the worker record with the call counted.
OnVerifyError(w, called) ==
    /\ result_queue' = Append(result_queue, ErrorMsg(w))
    /\ workers' = [workers EXCEPT ![w] =
                      [Sent(called, "result", ErrorMsg(w)) EXCEPT
                          !.pc = "finished", !.raised = TRUE]]
    /\ UNCHANGED stats_queue

\* Mutant of WorkerVerify: the worker that finds the password sets the stop
\* event itself.
WorkerVerify_SetsStop(w) ==
    LET me == workers[w]
        c == strategy_stream[me.chunk[me.pos]]
        called == [me EXCEPT !.late = @ + (IF stop_event THEN 1 ELSE 0),
                             !.calls = @ + 1,
                             !.tested = Append(@, me.chunk[me.pos])]
    IN /\ me.pc = "verify"
       /\ IF verify_raises(c)
          THEN OnVerifyError(w, called) /\ UNCHANGED stop_event
          ELSE IF verify(c, normalize_hash(target_hash))
          THEN /\ result_queue' = Append(result_queue, FoundMsg(w))
               /\ workers' = [workers EXCEPT ![w] =
                                 AfterFound(Sent(called, "result", FoundMsg(w)))]
               /\ stop_event' = TRUE
               /\ UNCHANGED stats_queue
          ELSE /\ IF me.since + 1 >= REPORT_INTERVAL
                  THEN /\ stats_queue' = Append(stats_queue, StatsMsg(w, me.since + 1))
                       /\ workers' = [workers EXCEPT ![w] =
                              [Sent(called, "stats", StatsMsg(w, me.since + 1)) EXCEPT
                                  !.attempts = @ + 1, !.since = 0,
                                  !.pos = @ + 1, !.pc = "check"]]
                  ELSE /\ workers' = [workers EXCEPT ![w] =
                              [called EXCEPT !.attempts = @ + 1, !.since = @ + 1,
                                             !.pos = @ + 1, !.pc = "check"]]
                       /\ UNCHANGED stats_queue
               /\ UNCHANGED <<result_queue, stop_event>>
       /\ UNCHANGED worker_frame

\* Lines 55-74: one verification call; a 'found' message and return on a
\* match, else the counters and the periodic stats message.
WorkerVerify(w) ==
    LET me == workers[w]
        c == strategy_stream[me.chunk[me.pos]]
        called == [me EXCEPT !.late = @ + (IF stop_event THEN 1 ELSE 0),
                             !.calls = @ + 1,
                             !.tested = Append(@, me.chunk[me.pos])]
    IN /\ me.pc = "verify"
       /\ IF verify_raises(c)
          THEN OnVerifyError(w, called)
          ELSE IF verify(c, normalize_hash(target_hash))
          THEN /\ result_queue' = Append(result_queue, FoundMsg(w))
               /\ workers' = [workers EXCEPT ![w] =
                                 AfterFound(Sent(called, "result", FoundMsg(w)))]
               /\ UNCHANGED stats_queue
          ELSE /\ IF me.since + 1 >= REPORT_INTERVAL
                  THEN /\ stats_queue' = Append(stats_queue, StatsMsg(w, me.since + 1))
                       /\ workers' = [workers EXCEPT ![w] =
                              [Sent(called, "stats", StatsMsg(w, me.since + 1)) EXCEPT
                                  !.attempts = @ + 1, !.since = 0,
                                  !.pos = @ + 1, !.pc = "check"]]
                  ELSE /\ workers' = [workers EXCEPT ![w] =
                              [called EXCEPT !.attempts = @ + 1, !.since = @ + 1,
                                             !.pos = @ + 1, !.pc = "check"]]
                       /\ UNCHANGED stats_queue
               /\ UNCHANGED result_queue
       /\ UNCHANGED <<stop_event, worker_frame>>

\* Mutant of WorkerFlush: the unreported remainder is not flushed.
WorkerFlush_NoRemainder(w) ==
    /\ workers[w].pc = "flush"
    /\ result_queue' = Append(result_queue, NotFoundMsg(w))
    /\ workers' = [workers EXCEPT ![w] =
                      [Sent(workers[w], "result", NotFoundMsg(w)) EXCEPT !.pc = "finished"]]
    /\ UNCHANGED <<stats_queue, stop_event, worker_frame>>

\* Lines 76-89: flush the unreported attempts, send 'not found'.
WorkerFlush(w) ==
    LET me == workers[w]
        flushed == IF me.since > 0 THEN Sent(me, "stats", StatsMsg(w, me.since)) ELSE me
    IN /\ me.pc = "flush"
       /\ stats_queue' = IF me.since > 0
                         THEN Append(stats_queue, StatsMsg(w, me.since))
                         ELSE stats_queue
       /\ result_queue' = Append(result_queue, NotFoundMsg(w))
       /\ workers' = [workers EXCEPT ![w] =
                         [Sent(flushed, "result", NotFoundMsg(w)) EXCEPT !.pc = "finished"]]
       /\ UNCHANGED <<stop_event, worker_frame>>

\* run() has returned: the process exits and is_alive() turns false.
WorkerExit(w) ==
    /\ workers[w].pc = "finished"
    /\ workers' = [workers EXCEPT ![w].pc = "dead"]
    /\ UNCHANGED <<stop_event, result_queue, stats_queue, worker_frame>>

\* ---------------------------------------------------------- specifications
Next ==
    \/ \E t \in RawTargets, tmo \in BOOLEAN : CrackHash(t, tmo)
    \/ PullBatch
    \/ StartWorker
    \/ AliveCheck
    \/ GetResult
    \/ FoundReturn
    \/ DrainStats
    \/ CheckTimeout
    \/ Interrupt
    \/ InterruptReturn
    \/ \E w \in DOMAIN workers : WorkerCheck(w)
    \/ \E w \in DOMAIN workers : WorkerVerify(w)
    \/ \E w \in DOMAIN workers : WorkerFlush(w)
    \/ \E w \in DOMAIN workers : WorkerExit(w)

Spec == Init /\ [][Next]_vars

\* The chunker alone, on longer streams and more workers.
InitChunks == InitWith(ChunkMaxWorkers, ChunkMaxStream)

NextChunks ==
    \/ \E t \in RawTargets, tmo \in BOOLEAN : CrackHash(t, tmo)
    \/ PullBatch

SpecChunks == InitChunks /\ [][NextChunks]_vars

\* The engine on streams with candidates whose verification raises.
InitErr == InitFrom(MaxWorkers, MaxStream, ErrCandidates)

SpecErr == InitErr /\ [][Next]_vars

\* --------------------------------------------------------- DictionaryAttack
\* A string is a sequence of one-character strings; a wordlist is a sequence
\* of lines, each without its line terminator.
DictMaxLines == 2

\* The lines a wordlist is drawn from: blank lines, padded words, words that
\* are mutations of one another, a word with an inner blank.
WordlistLines ==
    {<<>>, <<" ">>, <<"a">>, <<" ", "a">>, <<"a", " ">>, <<"A">>, <<"@">>,
     <<"a", "1">>, <<"1", "a">>, <<"a", " ", "a">>}

\* The variables of the engine, which a strategy used on its own leaves alone.
engine_vars == <<max_workers, stop_event, result_queue, stats_queue,
                 strategy_target, strategy_attempts, strategy_stream, pulled,
                 crackable, epc, target_hash, timeout, chunks, worker_idx,
                 work_chunks, workers, total_attempts, result, ret, outcome,
                 found_received, drained_from, interrupted, last_call, earlier, expander,
                 scheduler,
                 clock,
                 progress>>

\* An engine that is constructed and never called.
EngineUnused ==
    /\ max_workers = 1
    /\ stop_event = FALSE
    /\ result_queue = <<>>
    /\ stats_queue = <<>>
    /\ strategy_target = NoTarget
    /\ strategy_attempts = 0
    /\ strategy_stream = <<>>
    /\ pulled = 0
    /\ crackable = TRUE
    /\ epc = "idle"
    /\ target_hash = NoTarget
    /\ timeout = FALSE
    /\ chunks = <<>>
    /\ worker_idx = 0
    /\ work_chunks = <<>>
    /\ workers = <<>>
    /\ total_attempts = 0
    /\ result = NoResult
    /\ ret = NoReturn
    /\ outcome = "none"
    /\ found_received = <<>>
    /\ drained_from = <<>>
    /\ interrupted = FALSE
    /\ last_call = NoCall
    /\ earlier = <<>>
    /\ expander = NewExpander
    /\ scheduler = NewScheduler
    /\ clock = 0
    /\ progress = NewProgress(FALSE)

\* str.isspace of one character.
IsSpace(ch) == ch = " "

RECURSIVE lstrip(_)
lstrip(s) == IF s # <<>> /\ IsSpace(Head(s)) THEN lstrip(Tail(s)) ELSE s

RECURSIVE rstrip(_)
rstrip(s) ==
    IF s # <<>> /\ IsSpace(s[Len(s)]) THEN rstrip(SubSeq(s, 1, Len(s) - 1)) ELSE s

\* line.strip() (line 52).
strip(s) == rstrip(lstrip(s))

\* str.lower, str.upper of one character.
lower_char(ch) == IF ch = "A" THEN "a" ELSE ch
upper_char(ch) == IF ch = "a" THEN "A" ELSE ch

lower(s) == [i \in DOMAIN s |-> lower_char(s[i])]
upper(s) == [i \in DOMAIN s |-> upper_char(s[i])]

\* str.capitalize: the first character upper-cased, the rest lower-cased.
capitalize(s) == [i \in DOMAIN s |-> IF i = 1 THEN upper_char(s[i]) ELSE lower_char(s[i])]

\* _LEET_TABLE (lines 19-23) applied to one character.
leet_char(ch) ==
    CASE ch \in {"a", "A"} -> "@"
      [] ch \in {"e", "E"} -> "3"
      [] ch \in {"i", "I"} -> "1"
      [] ch \in {"o", "O"} -> "0"
      [] ch \in {"s", "S"} -> "$"
      [] ch \in {"t", "T"} -> "7"
      [] ch \in {"l", "L"} -> "1"
      [] OTHER -> ch

\* candidate.translate(self._LEET_TABLE).
translate(s) == [i \in DOMAIN s |-> leet_char(s[i])]

Suffixes ==
    << <<"1">>, <<"1", "2">>, <<"1", "2", "3">>, <<"1", "2", "3", "4">>,
       <<"2", "0", "2", "3">>, <<"2", "0", "2", "4">>, <<"2", "0", "2", "5">> >>

Prefixes == << <<"1">>, <<"1", "2">>, <<"1", "2", "3">> >>

Symbols == << <<"!">>, <<"@">>, <<"#">>, <<"$">>, <<"%">>, <<"&">>, <<"*">> >>

\* _apply_mutations(candidate): the strings it yields, in order.
apply_mutations(candidate) ==
    << lower(candidate), upper(candidate), capitalize(candidate) >>
    \o [i \in DOMAIN Suffixes |-> candidate \o Suffixes[i]]
    \o [i \in DOMAIN Prefixes |-> Prefixes[i] \o candidate]
    \o (IF translate(candidate) # candidate THEN << translate(candidate) >> ELSE <<>>)
    \o [i \in DOMAIN Symbols |-> candidate \o Symbols[i]]

\* A yield: the string is recorded as seen and handed to the consumer.
Yield(d, word) == [d EXCEPT !.seen = @ \cup {word}, !.out = Append(@, word)]

YieldBase_Always(d, candidate) == Yield(d, candidate)

\* Lines 56-58: the base word is yielded unless seen.
YieldBase(d, candidate) == IF candidate \notin d.seen THEN Yield(d, candidate) ELSE d

YieldMutation_Always(d, mutation) == Yield(d, mutation)

\* Lines 62-64: a mutation is yielded unless seen.
YieldMutation(d, mutation) == IF mutation \notin d.seen THEN Yield(d, mutation) ELSE d

RECURSIVE YieldMutations(_, _)
\* Lines 61-64: the loop over the mutations.
YieldMutations(d, mutations) ==
    IF mutations = <<>> THEN d
    ELSE YieldMutations(YieldMutation(d, Head(mutations)), Tail(mutations))

DictConstruct_ChecksPath ==
    /\ dictionary.pc = "unbuilt"
    /\ dictionary' = [dictionary EXCEPT
                        !.pc = IF dictionary.exists THEN "new" ELSE "construct_raised"]
    /\ UNCHANGED <<engine_vars, brute, hybrid, mask_tools>>

\* DictionaryAttack.__init__ (lines 25-31): the fields are stored.
DictConstruct ==
    /\ dictionary.pc = "unbuilt"
    /\ dictionary' = [dictionary EXCEPT !.pc = "new", !.wordlist_size = 0]
    /\ UNCHANGED <<engine_vars, brute, hybrid, mask_tools>>

\* Lines 44-47: the existence test and the empty `seen` set.
DictStarted(d) ==
    IF GenerationFails(d) THEN [d EXCEPT !.pc = "raised"]
    ELSE [d EXCEPT !.pc = "running", !.seen = {}]

\* The first next() on generate_candidates().
DictStart ==
    /\ dictionary.pc = "new"
    /\ dictionary' = DictStarted(dictionary)
    /\ UNCHANGED <<engine_vars, brute, hybrid, mask_tools>>

\* One pass of the loop over the lines (lines 51-66) of generator d.
DictLineRead(running) ==
    LET d == [running EXCEPT !.line_no = @ + 1]
        candidate == strip(d.lines[d.line_no])
        based == YieldBase(d, candidate)
        ruled == IF d.apply_rules
                   THEN YieldMutations(based, apply_mutations(candidate))
                   ELSE based
    IN IF candidate = <<>> THEN d ELSE [ruled EXCEPT !.wordlist_size = @ + 1]

\* One pass of the loop over the lines, consumed to its end.
DictLine ==
    /\ dictionary.pc = "running"
    /\ dictionary.line_no < Len(dictionary.lines)
    /\ dictionary' = DictLineRead(dictionary)
    /\ UNCHANGED <<engine_vars, brute, hybrid, mask_tools>>

\* The file is exhausted: the generator returns.
DictEnd ==
    /\ dictionary.pc = "running"
    /\ dictionary.line_no = Len(dictionary.lines)
    /\ dictionary' = [dictionary EXCEPT !.pc = "done"]
    /\ UNCHANGED <<engine_vars, brute, hybrid, mask_tools>>

RECURSIVE DictRun(_)
\* A generator consumed to its end, as list(generate_candidates()) does.
DictRun(d) ==
    IF d.pc = "new" THEN DictRun(DictStarted(d))
    ELSE IF d.pc = "running" /\ d.line_no < Len(d.lines) THEN DictRun(DictLineRead(d))
    ELSE IF d.pc = "running" THEN [d EXCEPT !.pc = "done"]
    ELSE d

\* A caller about to build a DictionaryAttack on a wordlist.
InitDict ==
    /\ EngineUnused
    /\ dictionary \in {UnbuiltDictionary(e, l, r) :
                          e \in BOOLEAN, l \in SeqsUpTo(WordlistLines, DictMaxLines),
                          r \in BOOLEAN}
    /\ brute = UnbuiltBrute(<<>>, 0, 0)
    /\ hybrid = NoHybrid
    /\ parser = NoParser
    /\ validation = NoValidation

NextDict ==
    \/ DictConstruct
    \/ DictStart
    \/ DictLine
    \/ DictEnd

SpecDict == InitDict /\ [][NextDict]_vars

\* --------------------------------------------------------- BruteForceAttack
\* A mask is a string over MaskChars of at most BruteMaxMask characters; an
\* explicit length bound is 1..BruteMaxArg, and 0 stands for None.
BruteMaxMask == 4
BruteMaxArg == 2

MaskChars == {"?", "b", "d", "x"}

\* The values of CHARACTER_SETS (lines 19-28); "backtick" stands for the
\* grave accent, the last symbol of '?s'.
charset_l ==
    <<"a", "b", "c", "d", "e", "f", "g", "h", "i", "j", "k", "l", "m", "n",
      "o", "p", "q", "r", "s", "t", "u", "v", "w", "x", "y", "z">>

charset_u ==
    <<"A", "B", "C", "D", "E", "F", "G", "H", "I", "J", "K", "L", "M", "N",
      "O", "P", "Q", "R", "S", "T", "U", "V", "W", "X", "Y", "Z">>

charset_d ==
    <<"0", "1", "2", "3", "4", "5", "6", "7", "8", "9">>

charset_s ==
    <<"!", "@", "#", "$", "%", "^", "&", "*", "(", ")", "-", "_", "=", "+",
      "[", "]", "{", "}", "|", ";", ":", ",", ".", "<", ">", "?", "/", "~",
      "backtick">>

charset_a == charset_l \o charset_u \o charset_d \o charset_s

charset_b == <<"0", "1">>

charset_h == charset_d \o <<"a", "b", "c", "d", "e", "f">>

charset_H == charset_d \o <<"A", "B", "C", "D", "E", "F">>

\* The keys of CHARACTER_SETS: two-character strings.
CharacterSetKeys ==
    {<<"?", "l">>, <<"?", "u">>, <<"?", "d">>, <<"?", "s">>, <<"?", "a">>,
     <<"?", "b">>, <<"?", "h">>, <<"?", "H">>}

\* CHARACTER_SETS[key].
CHARACTER_SETS(key) ==
    CASE key = <<"?", "l">> -> charset_l
      [] key = <<"?", "u">> -> charset_u
      [] key = <<"?", "d">> -> charset_d
      [] key = <<"?", "s">> -> charset_s
      [] key = <<"?", "a">> -> charset_a
      [] key = <<"?", "b">> -> charset_b
      [] key = <<"?", "h">> -> charset_h
      [] key = <<"?", "H">> -> charset_H

\* The test of lines 53 and 78 at (1-based) position i: the character after
\* the '?' is looked up, alone, among the keys of CHARACTER_SETS.
PlaceholderAt(mask, i) ==
    /\ i + 1 <= Len(mask)
    /\ mask[i] = "?"
    /\ <<mask[i + 1]>> \in CharacterSetKeys

RECURSIVE CountFrom(_, _)
\* The while loop of _extract_length_from_mask from position i on.
CountFrom(mask, i) ==
    IF i > Len(mask) THEN 0
    ELSE IF PlaceholderAt(mask, i) THEN 1 + CountFrom(mask, i + 2)
    ELSE 1 + CountFrom(mask, i + 1)

extract_length_from_mask(mask) == CountFrom(mask, 1)

RECURSIVE ExpandFrom(_, _)
\* The while loop of _expand_mask from position i on.
ExpandFrom(mask, i) ==
    IF i > Len(mask) THEN <<>>
    ELSE IF PlaceholderAt(mask, i)
         THEN <<CHARACTER_SETS(SubSeq(mask, i, i + 1))>> \o ExpandFrom(mask, i + 2)
    ELSE << <<mask[i]>> >> \o ExpandFrom(mask, i + 1)

\* _expand_mask returns a str exactly when the whole mask is a key (line 71).
expands_to_str(mask) == mask \in CharacterSetKeys

expand_mask(mask) ==
    IF expands_to_str(mask) THEN CHARACTER_SETS(mask) ELSE ExpandFrom(mask, 1)

RECURSIVE ProductOfLens(_)
ProductOfLens(sets) ==
    IF sets = <<>> THEN 1 ELSE Len(Head(sets)) * ProductOfLens(Tail(sets))

\* _calculate_total_combinations (lines 87-101).
calculate_total_combinations(b) ==
    IF b.is_str THEN Len(b.character_set) ^ b.min_length
    ELSE ProductOfLens(b.character_set)

\* `arg or default`: None and 0 both give the default.
OrDefault(arg, default) == IF arg = 0 THEN default ELSE arg

\* The iterables handed to itertools.product (lines 113 and 117).
Pools(b) ==
    IF b.is_str THEN [i \in 1..b.length |-> b.character_set] ELSE b.character_set

\* The first tuple of itertools.product: the first element of every pool.
FirstTuple(pools) == [i \in DOMAIN pools |-> 1]

\* ''.join(candidate) for the tuple the odometer points at.
Joined(pools, odometer) == [i \in DOMAIN pools |-> pools[i][odometer[i]]]

HasNextTuple(pools, odometer) == \E i \in DOMAIN pools : odometer[i] < Len(pools[i])

\* itertools.product advances the rightmost position that can advance and
\* rewinds the positions to its right.
NextTuple(pools, odometer) ==
    LET i == CHOOSE k \in DOMAIN pools :
                 /\ odometer[k] < Len(pools[k])
                 /\ \A l \in DOMAIN pools : l > k => odometer[l] = Len(pools[l])
    IN [j \in DOMAIN pools |->
            IF j < i THEN odometer[j] ELSE IF j = i THEN odometer[j] + 1 ELSE 1]

\* BruteForceAttack.__init__ (lines 30-37) on the arguments held by b.
BruteBuilt(b) ==
    LET lengths == [b EXCEPT
                      !.min_length = OrDefault(b.min_arg, extract_length_from_mask(b.mask)),
                      !.max_length = OrDefault(b.max_arg, extract_length_from_mask(b.mask))]
        expanded == [lengths EXCEPT
                       !.character_set = expand_mask(b.mask),
                       !.is_str = expands_to_str(b.mask)]
    IN [expanded EXCEPT
          !.pc = "new",
          !.total_combinations = calculate_total_combinations(expanded)]

BruteConstruct ==
    /\ brute.pc = "unbuilt"
    /\ brute' = BruteBuilt(brute)
    /\ UNCHANGED <<engine_vars, dictionary, hybrid, mask_tools>>

\* The first length of the range (line 112) and the first tuple of its
\* product, if any.
BruteStarted(built) ==
    LET b == [built EXCEPT !.length = built.min_length]
    IN IF built.is_str /\ built.min_length > built.max_length
       THEN [b EXCEPT !.pc = "done"]
       ELSE [b EXCEPT !.pc = "running", !.odometer = FirstTuple(Pools(b))]

\* The first next() on generate_candidates().
BruteStart ==
    /\ brute.pc = "new"
    /\ brute' = BruteStarted(brute)
    /\ UNCHANGED <<engine_vars, dictionary, hybrid, mask_tools>>

\* One yield (lines 114 and 118) and the step to the next tuple, the next
\* length, or the end of the generator.
BruteYielded(b) ==
    LET yielded == [b EXCEPT !.out = Append(@, Joined(Pools(b), b.odometer))]
        longer == [yielded EXCEPT !.length = @ + 1]
    IN IF HasNextTuple(Pools(b), b.odometer)
       THEN [yielded EXCEPT !.odometer = NextTuple(Pools(b), b.odometer)]
       ELSE IF b.is_str /\ b.length < b.max_length
       THEN [longer EXCEPT !.odometer = FirstTuple(Pools(longer))]
       ELSE [yielded EXCEPT !.pc = "done"]

BruteYield ==
    /\ brute.pc = "running"
    /\ brute' = BruteYielded(brute)
    /\ UNCHANGED <<engine_vars, dictionary, hybrid, mask_tools>>

RECURSIVE BruteRun(_)
\* A generator consumed to its end, as list(generate_candidates()) does.
BruteRun(b) ==
    IF b.pc = "new" THEN BruteRun(BruteStarted(b))
    ELSE IF b.pc = "running" THEN BruteRun(BruteYielded(b))
    ELSE b

\* A caller about to build a BruteForceAttack on a mask.
InitBrute ==
    /\ EngineUnused
    /\ dictionary = NewDictionary(TRUE, <<>>, FALSE)
    /\ brute \in {UnbuiltBrute(m, lo, hi) :
                     m \in SeqsUpTo(MaskChars, BruteMaxMask),
                     lo \in 0..BruteMaxArg, hi \in 0..BruteMaxArg}
    /\ hybrid = NoHybrid
    /\ parser = NoParser
    /\ validation = NoValidation

NextBrute ==
    \/ BruteConstruct
    \/ BruteStart
    \/ BruteYield

SpecBrute == InitBrute /\ [][NextBrute]_vars

\* ----------------------------------- MaskParser and validate_mask_pattern
\* The keys of MaskParser.CHARACTER_SETS (parser.py lines 29-39).
ParserKeys == CharacterSetKeys \cup {<<"?", "p">>}

\* MaskParser.CHARACTER_SETS[key].
ParserCharacterSet(key) ==
    IF key = <<"?", "p">> THEN <<" ">> \o charset_a ELSE CHARACTER_SETS(key)

\* The test of parser.py line 62 at (1-based) position i: the character
\* after the '?' is looked up, alone, among the keys of CHARACTER_SETS.
ParserPlaceholderAt(mask, i) ==
    /\ i + 1 <= Len(mask)
    /\ mask[i] = "?"
    /\ <<mask[i + 1]>> \in ParserKeys

\* Lines 66-72 and 78-83: the component appended for a placeholder or for a
\* literal character.
PlaceholderComponent(placeholder) ==
    [type |-> "placeholder", character_set |-> ParserCharacterSet(placeholder),
     size |-> Len(ParserCharacterSet(placeholder))]

LiteralComponent(char) == [type |-> "literal", character_set |-> <<char>>, size |-> 1]

RECURSIVE calculate_combinations(_)
\* _calculate_combinations (lines 95-108).
calculate_combinations(components) ==
    IF components = <<>> THEN 1
    ELSE Head(components).size * calculate_combinations(Tail(components))

\* parse_mask lines 54-59: the empty mask is rejected.
ParseMask ==
    /\ parser.pc = "idle"
    /\ parser' = [parser EXCEPT !.pc = IF parser.mask = <<>> THEN "raised" ELSE "running"]
    /\ UNCHANGED <<engine_vars, dictionary, brute, hybrid, validation>>

\* One pass of the while loop (lines 61-85).
ParseStep ==
    /\ parser.pc = "running"
    /\ parser.i <= Len(parser.mask)
    /\ parser' =
         IF ParserPlaceholderAt(parser.mask, parser.i)
         THEN [parser EXCEPT
                 !.components = Append(@, PlaceholderComponent(
                                             SubSeq(parser.mask, parser.i, parser.i + 1))),
                 !.length = @ + 1,
                 !.i = @ + 2]
         ELSE [parser EXCEPT
                 !.components = Append(@, LiteralComponent(parser.mask[parser.i])),
                 !.length = @ + 1,
                 !.i = @ + 1]
    /\ UNCHANGED <<engine_vars, dictionary, brute, hybrid, validation>>

\* Lines 87-93: the parsed mask is returned.
ParseReturn ==
    /\ parser.pc = "running"
    /\ parser.i > Len(parser.mask)
    /\ parser' = [parser EXCEPT
                    !.pc = "done",
                    !.total_combinations = calculate_combinations(parser.components)]
    /\ UNCHANGED <<engine_vars, dictionary, brute, hybrid, validation>>

\* validators.py line 151.
valid_placeholders ==
    {<<"?", "l">>, <<"?", "u">>, <<"?", "d">>, <<"?", "s">>, <<"?", "a">>,
     <<"?", "b">>, <<"?", "h">>, <<"?", "H">>, <<"?", "p">>, <<"?", "c">>}

\* validators.py lines 179-182, with .get(placeholder, 1).
char_set_sizes(placeholder) ==
    CASE placeholder \in {<<"?", "l">>, <<"?", "u">>} -> 26
      [] placeholder = <<"?", "d">> -> 10
      [] placeholder = <<"?", "s">> -> 32
      [] placeholder = <<"?", "a">> -> 95
      [] placeholder = <<"?", "b">> -> 2
      [] placeholder \in {<<"?", "h">>, <<"?", "H">>} -> 16
      [] placeholder = <<"?", "p">> -> 96
      [] OTHER -> 1

RECURSIVE SizesProduct(_)
\* Lines 184-186: the loop over placeholders_used.
SizesProduct(used) ==
    IF used = {} THEN 1
    ELSE LET placeholder == CHOOSE x \in used : TRUE
         IN char_set_sizes(placeholder) * SizesProduct(used \ {placeholder})

\* validate_mask_pattern lines 138-148: the empty mask is invalid.
ValidateMaskPattern ==
    /\ validation.pc = "idle"
    /\ validation' =
         IF validation.mask = <<>>
         THEN [validation EXCEPT !.pc = "done", !.is_valid = FALSE,
                                 !.errors = Append(@, "empty")]
         ELSE [validation EXCEPT !.pc = "running"]
    /\ UNCHANGED <<engine_vars, dictionary, brute, hybrid, parser>>

\* One pass of the while loop (lines 157-176).
ValidateStep ==
    /\ validation.pc = "running"
    /\ validation.i <= Len(validation.mask)
    /\ LET v == validation
           placeholder == SubSeq(v.mask, v.i, v.i + 1)
       IN validation' =
            IF v.mask[v.i] # "?"
            THEN [v EXCEPT !.length = @ + 1, !.i = @ + 1]
            ELSE IF v.i + 1 > Len(v.mask)
            THEN [v EXCEPT !.pc = "broke", !.is_valid = FALSE,
                           !.errors = Append(@, "incomplete")]
            ELSE IF placeholder \notin valid_placeholders
            THEN [v EXCEPT !.is_valid = FALSE, !.errors = Append(@, "invalid"),
                           !.i = @ + 2]
            ELSE [v EXCEPT !.placeholders_used = @ \cup {placeholder},
                           !.length = @ + 1, !.i = @ + 2]
    /\ UNCHANGED <<engine_vars, dictionary, brute, hybrid, parser>>

\* Lines 178-202: the estimate over placeholders_used, and the return.
ValidateReturn ==
    /\ validation.pc = "broke" \/ (validation.pc = "running" /\ validation.i > Len(validation.mask))
    /\ validation' = [validation EXCEPT
                        !.pc = "done",
                        !.estimated_combinations = SizesProduct(validation.placeholders_used)]
    /\ UNCHANGED <<engine_vars, dictionary, brute, hybrid, parser>>

\* A caller about to parse and to validate a mask.
InitMasks ==
    /\ EngineUnused
    /\ dictionary = NewDictionary(TRUE, <<>>, FALSE)
    /\ brute = UnbuiltBrute(<<>>, 0, 0)
    /\ hybrid = NoHybrid
    /\ \E m \in SeqsUpTo(MaskChars, BruteMaxMask) :
          /\ parser = IdleParser(m)
          /\ validation = IdleValidation(m)

NextMasks ==
    \/ ParseMask
    \/ ParseStep
    \/ ParseReturn
    \/ ValidateMaskPattern
    \/ ValidateStep
    \/ ValidateReturn

SpecMasks == InitMasks /\ [][NextMasks]_vars

\* -------------------------------------------------------------- HybridAttack
HybridMaxLines == 2

\* The lines a hybrid wordlist is drawn from, the masks and the modes.
HybridLines == {<<>>, <<"a">>, <<" ", "a">>, <<"a", "b">>}

HybridMasks ==
    {<<>>, <<"x">>, <<"?", "b">>, <<"x", "b">>, <<"x", "?", "b">>,
     <<"?", "b", "?", "b">>, <<"?", "d", "?", "d">>}

HybridModes == {"dictionary_mask", "mask_dictionary", "rules_brute", "unknown"}

\* list(generate_candidates()) of DictionaryAttack(hash_algorithm,
\* wordlist_path, apply_rules) on the hybrid's wordlist.
DictionaryPass(h, apply_rules) == DictRun(NewDictionary(h.exists, h.lines, apply_rules))

\* list(self.brute_force_attack.generate_candidates()): the attack built by
\* BruteForceAttack(hash_algorithm, mask) (line 30).
mask_combinations(h) == BruteRun(BruteBuilt(UnbuiltBrute(h.mask, 0, 0))).out

\* Lines 66-71: for one word, word + mask_part for every mask part, then
\* mask_part + word for every mask part.
WordAndMasks(word, combinations) ==
    [i \in DOMAIN combinations |-> word \o combinations[i]]
    \o [i \in DOMAIN combinations |-> combinations[i] \o word]

RECURSIVE dictionary_mask_hybrid(_, _)
\* Lines 64-71: the loop over the words.
dictionary_mask_hybrid(words, combinations) ==
    IF words = <<>> THEN <<>>
    ELSE WordAndMasks(Head(words), combinations)
         \o dictionary_mask_hybrid(Tail(words), combinations)

\* Lines 90-96: what one word and one mask part give.
WordInMask(word, mask_part) ==
    LET mid == Len(mask_part) \div 2
    IN IF Len(mask_part) > 1
       THEN <<word \o mask_part, mask_part \o word>>
            \o (IF Len(mask_part) > 2
                THEN <<SubSeq(mask_part, 1, mid) \o word
                       \o SubSeq(mask_part, mid + 1, Len(mask_part))>>
                ELSE <<>>)
       ELSE <<>>

RECURSIVE WordInMasks(_, _)
\* Lines 89-96: the loop over the mask parts for one word.
WordInMasks(word, combinations) ==
    IF combinations = <<>> THEN <<>>
    ELSE WordInMask(word, Head(combinations)) \o WordInMasks(word, Tail(combinations))

RECURSIVE mask_dictionary_hybrid(_, _)
\* Lines 87-96: the loop over the words.
mask_dictionary_hybrid(words, combinations) ==
    IF words = <<>> THEN <<>>
    ELSE WordInMasks(Head(words), combinations)
         \o mask_dictionary_hybrid(Tail(words), combinations)

rules_brute_hybrid_BruteFirst(dictionary_out, brute_out) == brute_out \o dictionary_out

\* Lines 112-116: the dictionary pass, then the brute-force pass.
rules_brute_hybrid(dictionary_out, brute_out) == dictionary_out \o brute_out

\* HybridAttack.__init__ (lines 19-32): the sub-attacks are built, the
\* brute-force one only for a non-empty mask.
HybridConstruct ==
    /\ hybrid.pc = "unbuilt"
    /\ hybrid' = [hybrid EXCEPT !.pc = "new", !.has_brute = (hybrid.mask # <<>>)]
    /\ UNCHANGED <<engine_vars, dictionary, brute, mask_tools>>

\* The generator of a mask-dependent mode up to its first yield: the test of
\* lines 57-58 (80-81), the list of mask combinations, then the start of the
\* dictionary generator.
MaskModeStarted(h, stream) ==
    IF ~h.has_brute THEN [h EXCEPT !.pc = "raised", !.error = "ValueError"]
    ELSE IF DictionaryPass(h, FALSE).pc = "raised"
    THEN [h EXCEPT !.pc = "raised", !.error = "FileNotFoundError"]
    ELSE [h EXCEPT !.pc = "running", !.pending = stream]

\* The generator of rules_brute mode up to its first yield.
RulesModeStarted(h) ==
    IF DictionaryPass(h, TRUE).pc = "raised"
    THEN [h EXCEPT !.pc = "raised", !.error = "FileNotFoundError"]
    ELSE [h EXCEPT !.pc = "running",
                   !.pending = rules_brute_hybrid(
                                   DictionaryPass(h, TRUE).out,
                                   IF h.has_brute THEN mask_combinations(h) ELSE <<>>)]

\* The first next() on generate_candidates() (lines 41-48).
HybridStart ==
    /\ hybrid.pc = "new"
    /\ hybrid' =
         CASE hybrid.hybrid_mode = "dictionary_mask" ->
                MaskModeStarted(hybrid, dictionary_mask_hybrid(
                                            DictionaryPass(hybrid, FALSE).out,
                                            mask_combinations(hybrid)))
           [] hybrid.hybrid_mode = "mask_dictionary" ->
                MaskModeStarted(hybrid, mask_dictionary_hybrid(
                                            DictionaryPass(hybrid, FALSE).out,
                                            mask_combinations(hybrid)))
           [] hybrid.hybrid_mode = "rules_brute" -> RulesModeStarted(hybrid)
           [] OTHER -> [hybrid EXCEPT !.pc = "raised", !.error = "ValueError"]
    /\ UNCHANGED <<engine_vars, dictionary, brute, mask_tools>>

\* One candidate is yielded to the consumer.
HybridYield ==
    /\ hybrid.pc = "running"
    /\ hybrid.pending # <<>>
    /\ hybrid' = [hybrid EXCEPT !.out = Append(@, Head(hybrid.pending)),
                                !.pending = Tail(@)]
    /\ UNCHANGED <<engine_vars, dictionary, brute, mask_tools>>

\* The generator returns.
HybridEnd ==
    /\ hybrid.pc = "running"
    /\ hybrid.pending = <<>>
    /\ hybrid' = [hybrid EXCEPT !.pc = "done"]
    /\ UNCHANGED <<engine_vars, dictionary, brute, mask_tools>>

\* A caller about to build a HybridAttack.
InitHybrid ==
    /\ EngineUnused
    /\ dictionary = NewDictionary(TRUE, <<>>, FALSE)
    /\ brute = UnbuiltBrute(<<>>, 0, 0)
    /\ parser = NoParser
    /\ validation = NoValidation
    /\ hybrid \in {UnbuiltHybrid(e, l, m, mode) :
                      e \in BOOLEAN, l \in SeqsUpTo(HybridLines, HybridMaxLines),
                      m \in HybridMasks, mode \in HybridModes}

NextHybrid ==
    \/ HybridConstruct
    \/ HybridStart
    \/ HybridYield
    \/ HybridEnd

SpecHybrid == InitHybrid /\ [][NextHybrid]_vars

\* ----------------------------------------- AttackStrategy, called directly
MaxAttempts == 3

\* What the methods of the strategy leave alone.
strategy_frame == <<max_workers, stop_event, result_queue, stats_queue, strategy_stream,
                    crackable, epc, target_hash, timeout, chunks, worker_idx,
                    work_chunks, workers, total_attempts, result, ret, outcome,
                    found_received, drained_from, interrupted, clock, progress,
                    dictionary, brute, hybrid, mask_tools, earlier, expander, scheduler>>

\* The call and what it gave: True, False or an exception of the algorithm.
VerifyCall(candidate) ==
    [op |-> "verify_candidate",
     matched |-> ~verify_raises(candidate) /\ verify(candidate, strategy_target),
     raised |-> verify_raises(candidate)]

VerifyCandidate_CountsMisses(candidate) ==
    /\ strategy_attempts < MaxAttempts
    /\ strategy_attempts' = IF VerifyCall(candidate).matched THEN strategy_attempts
                            ELSE strategy_attempts + 1
    /\ last_call' = VerifyCall(candidate)
    /\ UNCHANGED <<strategy_frame, strategy_target, pulled>>

\* verify_candidate (base.py lines 52-63): the counter is incremented, then
\* the algorithm verifies.
VerifyCandidate(candidate) ==
    /\ strategy_attempts < MaxAttempts
    /\ strategy_attempts' = strategy_attempts + 1
    /\ last_call' = VerifyCall(candidate)
    /\ UNCHANGED <<strategy_frame, strategy_target, pulled>>

\* set_target (lines 43-50).
SetTarget(t) ==
    /\ strategy_target' = normalize_hash(t)
    /\ last_call' = [NoCall EXCEPT !.op = "set_target"]
    /\ UNCHANGED <<strategy_frame, strategy_attempts, pulled>>

\* reset_stats (lines 65-68).
ResetStats ==
    /\ strategy_attempts' = 0
    /\ last_call' = [NoCall EXCEPT !.op = "reset_stats"]
    /\ UNCHANGED <<strategy_frame, strategy_target, pulled>>

\* generate_candidates(), advanced by one candidate.
GenerateCandidates ==
    /\ pulled < Len(strategy_stream)
    /\ pulled' = pulled + 1
    /\ last_call' = [NoCall EXCEPT !.op = "generate_candidates"]
    /\ UNCHANGED <<strategy_frame, strategy_target, strategy_attempts>>

\* A strategy that was just built (AttackStrategy.__init__, lines 16-21).
InitStrategy ==
    /\ InitFrom(1, MaxStream, ErrCandidates)
    /\ strategy_target = NoTarget
    /\ strategy_attempts = 0
    /\ crackable
    /\ dictionary.exists

NextStrategy ==
    \/ \E candidate \in ErrCandidates \cup Candidates : VerifyCandidate(candidate)
    \/ \E t \in RawTargets : SetTarget(t)
    \/ ResetStats
    \/ GenerateCandidates

SpecStrategy == InitStrategy /\ [][NextStrategy]_vars

\* ------------------------------------------------ crack_hash under a clock
\* time.time() advances between any two steps of the engine and the workers.
Tick ==
    /\ clock < MaxClock
    /\ clock' = clock + 1
    /\ UNCHANGED <<engine_fields, strategy_fields, chunker_locals, history,
                   crackable, dictionary, brute, untouched, progress, epc,
                   target_hash, timeout, workers, total_attempts, result, ret>>

\* One candidate that matches the target "ab" and one that does not.
ProgressCandidates == {"pw", "w"}

\* CrackingEngine(max_workers, progress_callback) with or without a callback
\* and a fresh strategy of a crackable algorithm.
InitProgress ==
    /\ \E callback \in BOOLEAN : InitSupplied(MaxWorkers, MaxStream, ProgressCandidates, callback)
    /\ strategy_target = NoTarget
    /\ strategy_attempts = 0
    /\ crackable
    /\ dictionary.exists

NextProgress ==
    \/ Next
    \/ Tick

SpecProgress == InitProgress /\ [][NextProgress]_vars

\* ------------------------------------- several crack_hash calls, one engine
MaxCalls == 2
ReuseMaxStream == 2

\* A digest that the candidate "w" hashes to.
OtherTarget == "cd"

\* What a finished call leaves to the history.
EarlierCall == [outcome |-> outcome, target_hash |-> target_hash, ret |-> ret]

\* crack_hash has returned, its workers have exited, and the caller is about
\* to call it again on the same engine with the same strategy object
\* (interface.py lines 415-427): the locals of the finished call are gone,
\* the fields of the engine (lines 48-54) and of the strategy stay, and
\* generate_candidates() will give a new generator.
NextCall ==
    /\ epc = "done"
    /\ Len(earlier) + 1 < MaxCalls
    /\ \A w \in DOMAIN workers : ~is_alive(w)
    /\ earlier' = Append(earlier, EarlierCall)
    /\ epc' = "idle"
    /\ pulled' = 0
    /\ target_hash' = NoTarget
    /\ timeout' = FALSE
    /\ chunks' = <<>>
    /\ worker_idx' = 0
    /\ work_chunks' = <<>>
    /\ workers' = <<>>
    /\ total_attempts' = 0
    /\ result' = NoResult
    /\ ret' = NoReturn
    /\ outcome' = "none"
    /\ found_received' = <<>>
    /\ drained_from' = <<>>
    /\ interrupted' = FALSE
    /\ UNCHANGED <<engine_fields, strategy_target, strategy_attempts, strategy_stream,
                   call_inputs, hybrid, parser, validation, last_call, progress,
                   expander, scheduler>>

\* One engine, a fresh strategy of a crackable algorithm.
InitReuse ==
    /\ InitSupplied(MaxWorkers, ReuseMaxStream, ProgressCandidates, FALSE)
    /\ strategy_target = NoTarget
    /\ strategy_attempts = 0
    /\ crackable
    /\ dictionary.exists

NextReuse ==
    \/ Next
    \/ \E tmo \in BOOLEAN : CrackHash(OtherTarget, tmo)
    \/ NextCall

SpecReuse == InitReuse /\ [][NextReuse]_vars

\* ------------------------------------------------ crack_hash, fair schedule
\* The statements of crack_hash after the call: the engine's process runs.
EngineStep ==
    \/ PullBatch
    \/ StartWorker
    \/ AliveCheck
    \/ GetResult
    \/ FoundReturn
    \/ DrainStats
    \/ CheckTimeout
    \/ InterruptReturn

\* The statements of run() of worker w, and the exit of its process.
WorkerRun(w) ==
    /\ w \in DOMAIN workers
    /\ \/ WorkerCheck(w)
       \/ WorkerVerify(w)
       \/ WorkerFlush(w)
       \/ WorkerExit(w)

\* A strategy whose generator does not raise: a finite stream.
InitLive ==
    /\ InitFrom(MaxWorkers, MaxStream, ErrCandidates)
    /\ dictionary.exists

\* The operating system schedules every process that can run: the engine
\* and each worker take their next step eventually. The call itself and a
\* KeyboardInterrupt are up to the caller.
SpecLive ==
    /\ InitLive
    /\ [][Next]_vars
    /\ WF_vars(EngineStep)
    /\ \A w \in 1..MaxWorkers : WF_vars(WorkerRun(w))

\* ------------------------------------------------------------ MaskExpander
RECURSIVE Prepended(_, _)
\* Every character of chars, in order, put before every string of tails.
Prepended(chars, tails) ==
    IF chars = <<>> THEN <<>>
    ELSE [j \in DOMAIN tails |-> <<Head(chars)>> \o tails[j]]
         \o Prepended(Tail(chars), tails)

RECURSIVE product(_)
\* ''.join over itertools.product(*char_sets): the last position varies
\* fastest.
product(char_sets) ==
    IF char_sets = <<>> THEN << <<>> >>
    ELSE Prepended(Head(char_sets), product(Tail(char_sets)))

\* expand_mask (expander.py lines 27-38): the character sets of the parsed
\* components.
character_sets_of(components) ==
    [k \in DOMAIN components |-> components[k].character_set]

\* generate_combinations (lines 41-60) without max_combinations.
generate_combinations(components) == product(character_sets_of(components))

\* A mask handed to a BruteForceAttack without length bounds and to
\* MaskParser.parse_mask.
InitAgree ==
    /\ EngineUnused
    /\ dictionary = NewDictionary(TRUE, <<>>, FALSE)
    /\ hybrid = NoHybrid
    /\ validation = NoValidation
    /\ \E m \in SeqsUpTo(MaskChars, BruteMaxMask) :
         /\ brute = UnbuiltBrute(m, 0, 0)
         /\ parser = IdleParser(m)

NextAgree ==
    \/ NextBrute
    \/ ParseMask
    \/ ParseStep
    \/ ParseReturn

SpecAgree == InitAgree /\ [][NextAgree]_vars

\* ------------------------------ MaskExpander and the placeholder registry
MaxRegistrations == 2

\* The names and the character set handed to add_custom_charset, and the
\* masks handed to expand_mask.
CharsetNames == {<<>>, <<"?">>, <<"b">>, <<"x">>}
CustomCharset == <<"y", "z">>
ExpandMasks == {<<"?", "x">>, <<"?", "b">>, <<"?", "?">>, <<"x">>}

\* What the mask classes leave alone.
expander_frame == <<engine_fields, strategy_fields, chunker_locals, history, crackable,
                    epc, target_hash, timeout, workers, total_attempts, result, ret,
                    dictionary, brute, hybrid, mask_tools, last_call, earlier, clock,
                    progress, scheduler>>

\* Dictionary d with d[key] = value assigned.
Assigned(d, key, value) ==
    [k \in DOMAIN d \cup {key} |-> IF k = key THEN value ELSE d[k]]

\* self.CHARACTER_SETS of a MaskParser instance: no instance has an
\* attribute of that name, so the lookup gives the dictionary of the class.
\* It holds the entries of lines 29-39 and the assignments of line 178.
CharacterSetsOf(inst) ==
    [k \in ParserKeys \cup DOMAIN expander.assigned |->
        IF k \in DOMAIN expander.assigned THEN expander.assigned[k]
        ELSE ParserCharacterSet(k)]

\* What a parse gives: the character sets of its components, or an
\* exception.
Parsed(sets) == [raised |-> FALSE, sets |-> sets]
ParseRaised == [raised |-> TRUE, sets |-> <<>>]

\* The parse of `rest` put after a component with character set `set`.
After(set, rest) == IF rest.raised THEN ParseRaised ELSE Parsed(<<set>> \o rest.sets)

RECURSIVE ParseFrom(_, _, _)
\* The while loop of parse_mask (parser.py lines 61-85) from position i,
\* under the dictionary sets: line 62 looks up the character after the '?',
\* line 64 the two characters.
ParseFrom(sets, mask, i) ==
    IF i > Len(mask) THEN Parsed(<<>>)
    ELSE IF i + 1 <= Len(mask) /\ mask[i] = "?" /\ <<mask[i + 1]>> \in DOMAIN sets
    THEN IF SubSeq(mask, i, i + 1) \in DOMAIN sets
         THEN After(sets[SubSeq(mask, i, i + 1)], ParseFrom(sets, mask, i + 2))
         ELSE ParseRaised
    ELSE After(<<mask[i]>>, ParseFrom(sets, mask, i + 1))

\* parse_mask (lines 54-93) of an instance.
parse_mask(inst, mask) ==
    IF mask = <<>> THEN ParseRaised ELSE ParseFrom(CharacterSetsOf(inst), mask, 1)

\* parse_mask under the dictionary the class is defined with (lines 29-39).
ParsedBuiltIn(mask) ==
    IF mask = <<>> THEN ParseRaised
    ELSE ParseFrom([k \in ParserKeys |-> ParserCharacterSet(k)], mask, 1)

\* add_custom_charset (lines 169-179) of instance inst.
AddCustomCharset(inst, name, charset) ==
    /\ expander.registrations < MaxRegistrations
    /\ expander' = [expander EXCEPT
                      !.custom_charsets[inst] = @ \cup {name},
                      !.assigned = Assigned(@, <<"?">> \o name, charset),
                      !.registrations = @ + 1,
                      !.last = NoExpansion]
    /\ UNCHANGED expander_frame

\* expand_mask (expander.py lines 27-39) with _get_parsed (lines 22-26): a
\* mask in the cache is answered from it, another one is parsed by the
\* expander's parser and cached unless the parse raises.
ExpandMask(mask) ==
    LET cached == mask \in DOMAIN expander.parse_cache
        fresh == parse_mask(ExpanderParser, mask)
        answer == IF cached THEN Parsed(expander.parse_cache[mask]) ELSE fresh
    IN /\ expander' = [expander EXCEPT
                         !.parse_cache = IF cached \/ fresh.raised THEN @
                                         ELSE Assigned(@, mask, fresh.sets),
                         !.last = [op |-> "expand_mask", mask |-> mask,
                                   raised |-> answer.raised, sets |-> answer.sets]]
       /\ UNCHANGED expander_frame

\* A MaskExpander and another MaskParser, just built.
InitExpander ==
    /\ EngineUnused
    /\ dictionary = NewDictionary(TRUE, <<>>, FALSE)
    /\ brute = UnbuiltBrute(<<>>, 0, 0)
    /\ hybrid = NoHybrid
    /\ parser = NoParser
    /\ validation = NoValidation

NextExpander ==
    \/ \E inst \in Instances, name \in CharsetNames :
         AddCustomCharset(inst, name, CustomCharset)
    \/ \E mask \in ExpandMasks : ExpandMask(mask)

SpecExpander == InitExpander /\ [][NextExpander]_vars

\* ----------------------------------------------------------- TaskScheduler
MaxTasks == 3
MaxPriority == 1
MaxCompletions == 3

\* The worker ids handed to assign_task.
SchedulerWorkers == {"w0", "w1"}

\* What the scheduler's methods leave alone.
scheduler_frame == <<engine_fields, strategy_fields, chunker_locals, history, crackable,
                     epc, target_hash, timeout, workers, total_attempts, result, ret,
                     dictionary, brute, hybrid, mask_tools, last_call, earlier, clock,
                     progress, expander>>

\* Task(task_id, priority, ...) of lines 50-55.
NewTask(priority) ==
    [priority |-> priority, assigned_worker |-> NoWorker, status |-> "pending"]

RECURSIVE Inserted(_, _, _)
\* Task id put into the sorted queue behind every id whose priority is not
\* lower: the place a stable sort gives it.
Inserted(tasks, sorted, id) ==
    IF sorted = <<>> THEN <<id>>
    ELSE IF tasks[Head(sorted) + 1].priority >= tasks[id + 1].priority
         THEN <<Head(sorted)>> \o Inserted(tasks, Tail(sorted), id)
    ELSE <<id>> \o sorted

RECURSIVE Sorted(_, _)
\* list.sort(key=priority, reverse=True) (line 61): stable, highest first.
Sorted(tasks, queue) ==
    IF queue = <<>> THEN <<>>
    ELSE Inserted(tasks, Sorted(tasks, SubSeq(queue, 1, Len(queue) - 1)),
                  queue[Len(queue)])

\* The history of a call.
SchedulerCall(op, task_id, popped) ==
    [op |-> op, task_id |-> task_id, popped |-> popped, queue |-> scheduler.task_queue]

\* Dictionary d without key.
Deleted(d, key) == [k \in DOMAIN d \ {key} |-> d[k]]

\* create_task (lines 36-63).
CreateTask(priority) ==
    LET task_id == scheduler.total_tasks_created
        tasks == Append(scheduler.tasks, NewTask(priority))
    IN /\ scheduler.total_tasks_created < MaxTasks
       /\ scheduler' = [scheduler EXCEPT
                          !.total_tasks_created = @ + 1,
                          !.tasks = tasks,
                          !.task_queue = Sorted(tasks, Append(@, task_id)),
                          !.last = SchedulerCall("create_task", task_id, FALSE)]
       /\ UNCHANGED scheduler_frame

\* assign_task (lines 65-93).
AssignTask(worker_id) ==
    /\ scheduler' =
         IF scheduler.task_queue = <<>>
         THEN [scheduler EXCEPT !.last = SchedulerCall("assign_task", 0, FALSE)]
         ELSE IF worker_id \in DOMAIN scheduler.worker_assignments
         THEN [scheduler EXCEPT
                 !.last = SchedulerCall("assign_task",
                                        scheduler.worker_assignments[worker_id], FALSE)]
         ELSE LET task_id == Head(scheduler.task_queue)
              IN [scheduler EXCEPT
                    !.task_queue = Tail(@),
                    !.tasks[task_id + 1].assigned_worker = worker_id,
                    !.tasks[task_id + 1].status = "assigned",
                    !.worker_assignments = Assigned(@, worker_id, task_id),
                    !.last = SchedulerCall("assign_task", task_id, TRUE)]
    /\ UNCHANGED scheduler_frame

\* complete_task (lines 95-114); an id that is not a key of tasks returns
\* at line 104.
CompleteTask(task_id, success) ==
    /\ Len(scheduler.completed_tasks) < MaxCompletions
    /\ scheduler' =
         IF task_id >= Len(scheduler.tasks)
         THEN [scheduler EXCEPT !.last = SchedulerCall("complete_task", task_id, FALSE)]
         ELSE LET task == scheduler.tasks[task_id + 1]
              IN [scheduler EXCEPT
                    !.tasks[task_id + 1].status = IF success THEN "completed" ELSE "failed",
                    !.worker_assignments =
                        IF task.assigned_worker \in DOMAIN @
                        THEN Deleted(@, task.assigned_worker) ELSE @,
                    !.completed_tasks = Append(@, task_id),
                    !.last = SchedulerCall("complete_task", task_id, FALSE)]
    /\ UNCHANGED scheduler_frame

\* A TaskScheduler just built.
InitScheduler ==
    /\ EngineUnused
    /\ dictionary = NewDictionary(TRUE, <<>>, FALSE)
    /\ brute = UnbuiltBrute(<<>>, 0, 0)
    /\ hybrid = NoHybrid
    /\ parser = NoParser
    /\ validation = NoValidation

NextScheduler ==
    \/ \E priority \in 0..MaxPriority : CreateTask(priority)
    \/ \E worker_id \in SchedulerWorkers : AssignTask(worker_id)
    \/ \E task_id \in 0..MaxTasks, success \in BOOLEAN : CompleteTask(task_id, success)

SpecScheduler == InitScheduler /\ [][NextScheduler]_vars

\* ------------------------------------------------------------------ claims
\* The candidate at stream position p verifies against the run's target.
Matches(p) == verify(strategy_stream[p], normalize_hash(target_hash))

\* Some chunk handed to a worker holds a candidate that verifies.
SomeChunkMatches ==
    \E c \in DOMAIN work_chunks : \E i \in DOMAIN work_chunks[c] :
        Matches(work_chunks[c][i])

RECURSIVE AttemptsOf(_)
\* The verification calls that did not match, over a sequence of workers.
AttemptsOf(ws) == IF ws = <<>> THEN 0 ELSE Head(ws).attempts + AttemptsOf(Tail(ws))

RECURSIVE SumExcept(_, _, _)
\* drained[1] + ... + drained[n] without the entry of worker `skip`.
SumExcept(drained, n, skip) ==
    IF n = 0 THEN 0
    ELSE (IF n = skip THEN 0 ELSE drained[n]) + SumExcept(drained, n - 1, skip)

\* Occurrences of position p in chunk c.
Count(p, c) == Cardinality({i \in DOMAIN c : c[i] = p})

RECURSIVE CountAll(_, _)
\* Occurrences of position p in all the chunks of the sequence cs.
CountAll(p, cs) == IF cs = <<>> THEN 0 ELSE Count(p, Head(cs)) + CountAll(p, Tail(cs))

\* C1: a run without timeout and without interrupt in which some chunk holds
\* a verifying candidate returns success with a password that verifies.
C1_FoundWhenPresent ==
    (epc = "done" /\ crackable /\ ~timeout /\ ~interrupted /\ SomeChunkMatches)
        => (ret.success /\ ret.password \in Candidates
            /\ verify(ret.password, normalize_hash(target_hash)))

\* C2: when the workers all exit and none sent a 'found' message, the failure
\* result carries every verification call the workers made.
C2_ExhaustedCountsAll ==
    (outcome = "Exhausted" /\ \A i \in DOMAIN result_queue : ~result_queue[i].found)
        => (~ret.success /\ ret.attempts = AttemptsOf(workers))

\* C3: the attempts of a success result are the winner's local attempts plus
\* the attempts accumulated from the other workers only.
C3_WinnerNotCountedTwice ==
    outcome = "Found"
        => ret.attempts = found_received[1].attempts
               + SumExcept(drained_from, Len(drained_from), found_received[1].worker_id + 1)

\* C4: the first 'found' message the engine receives sets the stop event at
\* once and fixes the returned password; 'found' messages sent later by other
\* workers never change the result of the run.
C4_FirstFoundWins ==
    /\ epc = "found_join" => (stop_event /\ found_received # <<>>)
    /\ outcome = "Found"
         => /\ stop_event
            /\ ret.success
            /\ found_received # <<>>
            /\ ret.password = found_received[1].password
            /\ Len(found_received) = 1

\* A run returned the first winner's password while another worker's 'found'
\* message with another password is in the result queue.
C4_Witness ==
    /\ outcome = "Found"
    /\ \E i \in DOMAIN result_queue :
          result_queue[i].found /\ result_queue[i].password # ret.password

\* C5: after a timeout the engine returns only when every worker has exited
\* and nothing is left unread in the two queues.
C5_TimedOutDrainsAll ==
    outcome = "TimedOut"
        => /\ \A w \in DOMAIN workers : ~is_alive(w)
           /\ result_queue = <<>>
           /\ stats_queue = <<>>

\* C6: a worker whose loop check ran with the stop event set starts no
\* verification call, so with the stop event set a worker makes at most the
\* one call that was already past its check.
C6_NoVerifyAfterStop ==
    \A w \in DOMAIN workers :
        /\ workers[w].pc = "verify" => ~workers[w].saw_stop
        /\ workers[w].late <= 1

\* A worker made its one call in progress under the stop event, then stopped
\* with candidates of its chunk left untested.
C6_Witness ==
    \E w \in DOMAIN workers :
        /\ workers[w].late = 1
        /\ workers[w].saw_stop
        /\ workers[w].pc = "dead"
        /\ workers[w].pos <= Len(workers[w].chunk)

\* C7: with is_crackable() false crack_hash returns the zero-attempt failure
\* result and leaves the strategy's target and attempts, the stream, the stop
\* event, both queues and the worker list as they were.
C7_NotCrackableFailsFast ==
    [][(epc = "idle" /\ ~crackable)
          => /\ epc' = "done"
             /\ ret' = CrackingResult(FALSE, NoPassword, 0)
             /\ UNCHANGED <<strategy_target, strategy_attempts, pulled, stop_event,
                            result_queue, stats_queue, workers>>]_vars

\* The fail-fast return on a strategy that had a target and counted attempts.
C7_Witness ==
    /\ outcome = "NotCrackable"
    /\ strategy_target = "cd"
    /\ strategy_attempts = 1
    /\ strategy_stream # <<>>

\* C8: an interrupted run reports success exactly when a 'found' message had
\* been received, and failure otherwise.
C8_InterruptKeepsFound ==
    outcome = "Interrupted" => (ret.success <=> found_received # <<>>)

\* C9: while and after chunking, stream position p (the candidate of batch
\* (p-1) \div chunk_size) is in bucket ((p-1) \div chunk_size) % max_workers
\* and in no other, once; positions not yet pulled are in no bucket; every
\* bucket is in stream order; the returned chunks hold each position once.
C9_RoundRobinPartition ==
    epc \in {"chunking", "starting"}
        => /\ \A b \in DOMAIN chunks : \A i \in DOMAIN chunks[b] :
                 /\ chunks[b][i] \in 1..pulled
                 /\ ((chunks[b][i] - 1) \div chunk_size) % max_workers = b - 1
                 /\ \A j \in DOMAIN chunks[b] : i < j => chunks[b][i] < chunks[b][j]
           /\ \A p \in 1..pulled : CountAll(p, chunks) = 1
           /\ epc = "starting"
                => /\ pulled = Len(strategy_stream)
                   /\ \A p \in 1..Len(strategy_stream) : CountAll(p, work_chunks) = 1
                   /\ \A c \in DOMAIN work_chunks : \A i, j \in DOMAIN work_chunks[c] :
                         i < j => work_chunks[c][i] < work_chunks[c][j]

\* The round robin wrapped around: bucket 0 holds batch 0 and batch 2.
C9_Witness ==
    /\ epc = "starting"
    /\ max_workers = 2
    /\ Len(chunks[1]) > chunk_size
    /\ chunks[2] # <<>>

\* C10: the returned chunk list has between 1 and max_workers chunks, none
\* empty for a non-empty stream, and is the single empty chunk for an empty
\* stream.
C10_ReturnedChunksShape ==
    epc = "starting"
        => /\ Len(work_chunks) >= 1
           /\ Len(work_chunks) <= max_workers
           /\ strategy_stream # <<>> => \A c \in DOMAIN work_chunks : work_chunks[c] # <<>>
           /\ strategy_stream = <<>> => work_chunks = << <<>> >>

\* A non-empty stream filled fewer buckets than there are workers.
C10_Witness ==
    /\ epc = "starting"
    /\ strategy_stream # <<>>
    /\ Len(work_chunks) < max_workers

\* The chunks held by the workers, in worker order.
WorkerChunks == [w \in DOMAIN workers |-> workers[w].chunk]

\* C11: once the start loop is over there is exactly one worker per returned
\* chunk, worker i holding chunk i, never more than max_workers workers, and
\* every stream position is in the chunk of exactly one worker.
C11_OneWorkerPerChunk ==
    /\ Len(workers) <= max_workers
    /\ (epc \notin {"idle", "chunking", "starting", "raised"} /\ outcome # "NotCrackable")
         => /\ Len(workers) = Len(work_chunks)
            /\ \A w \in DOMAIN workers : workers[w].chunk = work_chunks[w]
            /\ \A p \in 1..Len(strategy_stream) : CountAll(p, WorkerChunks) = 1

\* Two workers were started, one per chunk.
C11_Witness ==
    /\ epc = "alive_check"
    /\ Len(workers) = 2
    /\ workers[1].chunk # <<>>
    /\ workers[2].chunk # <<>>

\* Worker w has put a 'found' message.
FoundSent(w) ==
    \E i \in DOMAIN workers[w].sent :
        workers[w].sent[i][1] = "result" /\ workers[w].sent[i][2].found

\* The number of result messages worker w has put.
ResultsSent(w) ==
    Cardinality({i \in DOMAIN workers[w].sent : workers[w].sent[i][1] = "result"})

\* C12: a worker verifies the positions of its chunk in chunk order; a
\* verifying candidate is the last one it tests, and the 'found' message with
\* that candidate is the last message it puts and its only result message.
C12_StopsAtFirstMatch ==
    \A w \in DOMAIN workers :
        LET me == workers[w]
            n == Len(me.tested)
        IN /\ n <= Len(me.chunk)
           /\ \A i \in 1..n : me.tested[i] = me.chunk[i]
           /\ \A i \in 1..n : Matches(me.tested[i]) => (i = n /\ FoundSent(w))
           /\ FoundSent(w)
                => /\ n >= 1
                   /\ Matches(me.tested[n])
                   /\ me.sent[Len(me.sent)][1] = "result"
                   /\ me.sent[Len(me.sent)][2].found
                   /\ me.sent[Len(me.sent)][2].password = strategy_stream[me.tested[n]]
                   /\ ResultsSent(w) = 1
                   /\ me.pc \in {"finished", "dead"}

\* A worker found the password, exited and left candidates of its chunk
\* untested.
C12_Witness ==
    \E w \in DOMAIN workers :
        /\ FoundSent(w)
        /\ workers[w].pc = "dead"
        /\ Len(workers[w].tested) < Len(workers[w].chunk)

\* C13: the attempts of a 'found' message is the number of verification
\* calls the worker made, the matching one included.
C13_FoundCountsEveryCall ==
    \A w \in DOMAIN workers : \A i \in DOMAIN workers[w].sent :
        (workers[w].sent[i][1] = "result" /\ workers[w].sent[i][2].found)
            => workers[w].sent[i][2].attempts = workers[w].calls

RECURSIVE StatsSent(_)
\* The attempts of the stats messages in a history of puts.
StatsSent(sent) ==
    IF sent = <<>> THEN 0
    ELSE (IF Head(sent)[1] = "stats" THEN Head(sent)[2].attempts ELSE 0)
         + StatsSent(Tail(sent))

\* C14: every stats message carries the report interval, except a last one
\* that carries the remainder and is followed by the 'not found' message;
\* inside the loop the stats sent plus the attempts since the last report are
\* the local attempts, and a worker that ended without a match (chunk
\* exhausted or stop event seen) has reported exactly its local attempts.
C14_StatsSumToAttempts ==
    \A w \in DOMAIN workers :
        LET me == workers[w]
            last == Len(me.sent)
        IN /\ \A i \in DOMAIN me.sent :
                 me.sent[i][1] = "stats"
                    => \/ me.sent[i][2].attempts = REPORT_INTERVAL
                       \/ /\ i = last - 1
                          /\ me.sent[last][1] = "result"
                          /\ ~me.sent[last][2].found
                          /\ me.sent[i][2].attempts \in 1..(REPORT_INTERVAL - 1)
           /\ me.pc \in {"check", "verify", "flush"}
                 => StatsSent(me.sent) + me.since = me.attempts
           /\ (me.pc \in {"finished", "dead"} /\ ~FoundSent(w) /\ ~me.raised)
                 => StatsSent(me.sent) = me.attempts

\* A worker exhausted its chunk after one periodic report and flushed a
\* remainder.
C14_Witness ==
    \E w \in DOMAIN workers :
        /\ workers[w].pc = "dead"
        /\ ~FoundSent(w)
        /\ Len(workers[w].sent) = 3
        /\ workers[w].sent[2][1] = "stats"
        /\ workers[w].sent[2][2].attempts < REPORT_INTERVAL

\* C15: a worker whose verification call raised has put exactly one result
\* message, 'not found' with an error text, and has returned; the stop event
\* is set only on a received 'found' message, a timeout or an interrupt; a
\* sibling that left candidates untested without a match saw the stop event;
\* the engine takes the error message as 'not found' and ends with a result.
C15_VerifyErrorContained ==
    /\ \A w \in DOMAIN workers :
          LET me == workers[w]
          IN /\ me.raised
                  => /\ me.pc \in {"finished", "dead"}
                     /\ ResultsSent(w) = 1
                     /\ me.sent[Len(me.sent)][1] = "result"
                     /\ ~me.sent[Len(me.sent)][2].found
                     /\ me.sent[Len(me.sent)][2].error # NoError
             /\ (me.pc \in {"flush", "finished", "dead"} /\ me.pos <= Len(me.chunk)
                 /\ ~me.raised /\ ~FoundSent(w))
                  => me.saw_stop
    /\ stop_event => (found_received # <<>> \/ outcome = "TimedOut" \/ interrupted)
    /\ result.error # NoError => (~result.found /\ epc # "found_join")
    /\ dictionary.exists => epc # "raised"
    /\ epc = "done"
         => outcome \in {"Found", "Exhausted", "TimedOut", "Interrupted", "NotCrackable"}

\* A verification raised in one worker, its sibling went on, found the
\* password, and the run returned success.
C15_Witness ==
    /\ outcome = "Found"
    /\ \E w, v \in DOMAIN workers :
          /\ workers[w].raised
          /\ v # w
          /\ FoundSent(v)
          /\ ret.password = strategy_stream[workers[v].tested[Len(workers[v].tested)]]

\* n blanks.
Blanks(n) == [i \in 1..n |-> " "]

\* w is the text of line between its leading and trailing blanks.
IsWordOf(w, line) ==
    /\ w # <<>>
    /\ w[1] # " "
    /\ w[Len(w)] # " "
    /\ \E i, j \in 0..Len(line) : line = Blanks(i) \o w \o Blanks(j)

NonBlank(line) == \E i \in DOMAIN line : line[i] # " "

\* The number of the first line of the wordlist whose word is w.
FirstLine(w) ==
    CHOOSE k \in DOMAIN dictionary.lines :
        /\ IsWordOf(w, dictionary.lines[k])
        /\ \A l \in 1..(k - 1) : ~IsWordOf(w, dictionary.lines[l])

NoRepeat(out) == \A i, j \in DOMAIN out : i # j => out[i] # out[j]

\* Every non-blank line of the wordlist has its word among the candidates.
EveryBaseWordYielded ==
    \A k \in DOMAIN dictionary.lines :
        NonBlank(dictionary.lines[k])
            => \E i \in DOMAIN dictionary.out :
                   IsWordOf(dictionary.out[i], dictionary.lines[k])

\* The wordlist holds non-blank lines with pairwise distinct words.
DistinctWords ==
    /\ \A k \in DOMAIN dictionary.lines : NonBlank(dictionary.lines[k])
    /\ \A k, l \in DOMAIN dictionary.lines :
          k # l => strip(dictionary.lines[k]) # strip(dictionary.lines[l])

\* C16: with rules disabled a finished generation has yielded the words of
\* the non-blank lines (each line without its surrounding blanks) and nothing
\* else, no word twice, in the order of the words' first lines; a wordlist of
\* distinct non-blank words gives as many candidates as it has lines.
C16_RulesOffYieldsDistinctLines ==
    (dictionary.pc = "done" /\ ~dictionary.apply_rules)
        => /\ NoRepeat(dictionary.out)
           /\ \A i \in DOMAIN dictionary.out :
                 \E k \in DOMAIN dictionary.lines :
                     IsWordOf(dictionary.out[i], dictionary.lines[k])
           /\ EveryBaseWordYielded
           /\ \A i, j \in DOMAIN dictionary.out :
                 i < j => FirstLine(dictionary.out[i]) < FirstLine(dictionary.out[j])
           /\ DistinctWords => Len(dictionary.out) = Len(dictionary.lines)

\* Two different lines with the same word gave one candidate.
C16_Witness ==
    /\ dictionary.pc = "done"
    /\ ~dictionary.apply_rules
    /\ Len(dictionary.lines) = 2
    /\ dictionary.lines[1] # dictionary.lines[2]
    /\ NonBlank(dictionary.lines[1])
    /\ NonBlank(dictionary.lines[2])
    /\ Len(dictionary.out) = 1

\* C17: with rules enabled no string is yielded twice at any point of the
\* generation, and a finished generation has yielded the word of every
\* non-blank line.
C17_RulesOnNeverRepeats ==
    dictionary.apply_rules
        => /\ NoRepeat(dictionary.out)
           /\ dictionary.pc = "done" => EveryBaseWordYielded

\* The second word of the wordlist is the leetspeak mutation of the first.
C17_Witness ==
    /\ dictionary.pc = "done"
    /\ dictionary.apply_rules
    /\ Len(dictionary.lines) = 2
    /\ dictionary.lines[1] # dictionary.lines[2]
    /\ dictionary.lines[2] = translate(dictionary.lines[1])
    /\ dictionary.wordlist_size = 2

\* C18: in a call that reaches candidate generation with a missing wordlist
\* file no candidate is pulled or put in a chunk, no worker is started and no
\* result is returned: the call ends by raising FileNotFoundError.
C18_MissingWordlistRaises ==
    (crackable /\ ~dictionary.exists)
        => /\ pulled = 0
           /\ \A b \in DOMAIN chunks : chunks[b] = <<>>
           /\ work_chunks = <<>>
           /\ workers = <<>>
           /\ ret = NoReturn
           /\ epc \in {"idle", "chunking", "raised"}
           /\ epc = "raised" => outcome = "FileNotFoundError"
           /\ outcome \in {"none", "FileNotFoundError"}

\* The call raised although the strategy had candidates to give.
C18_Witness ==
    /\ epc = "raised"
    /\ ~dictionary.exists
    /\ strategy_stream # <<>>
    /\ outcome = "FileNotFoundError"

\* C19: a DictionaryAttack is never built on a wordlist path that does not
\* exist: the constructor raises instead.
C19_ConstructorRejectsMissingPath ==
    ~dictionary.exists => dictionary.pc \in {"unbuilt", "construct_raised"}

RECURSIVE PositionSets(_)
\* The character set of every position of a mask: a '?' with a class letter
\* after it is one position holding that class, any other character is one
\* position holding itself.
PositionSets(mask) ==
    IF mask = <<>> THEN <<>>
    ELSE IF Len(mask) >= 2 /\ SubSeq(mask, 1, 2) \in CharacterSetKeys
         THEN <<CHARACTER_SETS(SubSeq(mask, 1, 2))>> \o PositionSets(SubSeq(mask, 3, Len(mask)))
    ELSE << <<Head(mask)>> >> \o PositionSets(Tail(mask))

\* The place of character ch in the declared order of a character set.
IndexIn(set, ch) == CHOOSE k \in DOMAIN set : set[k] = ch

\* a comes before b in the lexicographic order the character sets declare.
LexLess(sets, a, b) ==
    \E p \in DOMAIN sets :
        /\ \A q \in 1..(p - 1) : a[q] = b[q]
        /\ IndexIn(sets[p], a[p]) < IndexIn(sets[p], b[p])

\* C20: built without explicit length bounds, a finished generation has
\* yielded the strings of the Cartesian product of the mask's per-position
\* character sets, each once, in increasing lexicographic order of the
\* declared character order, and as many as total_combinations says.
C20_YieldsMaskProduct ==
    (brute.pc = "done" /\ brute.min_arg = 0 /\ brute.max_arg = 0)
        => LET sets == PositionSets(brute.mask)
           IN /\ Len(brute.out) = ProductOfLens(sets)
              /\ brute.total_combinations = Len(brute.out)
              /\ \A i \in DOMAIN brute.out :
                    /\ Len(brute.out[i]) = Len(sets)
                    /\ \A p \in DOMAIN sets :
                          \E k \in DOMAIN sets[p] : brute.out[i][p] = sets[p][k]
              /\ \A i \in 1..(Len(brute.out) - 1) :
                    LexLess(sets, brute.out[i], brute.out[i + 1])

RECURSIVE PlaceholderCount(_)
\* The number of placeholders ('?' with a class letter after it) of a mask.
PlaceholderCount(mask) ==
    IF mask = <<>> THEN 0
    ELSE IF Len(mask) >= 2 /\ SubSeq(mask, 1, 2) \in CharacterSetKeys
         THEN 1 + PlaceholderCount(SubSeq(mask, 3, Len(mask)))
    ELSE PlaceholderCount(Tail(mask))

\* C21: a BruteForceAttack built without explicit length bounds has
\* min_length = max_length = the number of placeholders of its mask (for a
\* mask with literals: read either as the placeholders alone or as all the
\* mask's components).
C21_LengthsDefaultToPlaceholderCount ==
    (brute.pc # "unbuilt" /\ brute.min_arg = 0 /\ brute.max_arg = 0)
        => /\ brute.min_length = brute.max_length
           /\ brute.min_length \in {PlaceholderCount(brute.mask),
                                    Len(PositionSets(brute.mask))}

RECURSIVE WellFormed(_)
\* Every '?' of the mask is followed by a class letter.
WellFormed(mask) ==
    IF mask = <<>> THEN TRUE
    ELSE IF Head(mask) = "?"
         THEN /\ Len(mask) >= 2
              /\ SubSeq(mask, 1, 2) \in CharacterSetKeys
              /\ WellFormed(SubSeq(mask, 3, Len(mask)))
    ELSE WellFormed(Tail(mask))

\* C22: a parsed mask's total_combinations is the product of the sizes of its
\* components, a placeholder counting the size of its character set and a
\* literal 1.
C22_TotalIsProductOfSizes ==
    (parser.pc = "done" /\ WellFormed(parser.mask))
        => parser.total_combinations = ProductOfLens(PositionSets(parser.mask))

RECURSIVE PositionSizes(_)
\* The product, over the positions of a mask, of the size validate_mask_pattern
\* declares for the position's placeholder, a literal counting 1.
PositionSizes(mask) ==
    IF mask = <<>> THEN 1
    ELSE IF Len(mask) >= 2 /\ SubSeq(mask, 1, 2) \in valid_placeholders
         THEN char_set_sizes(SubSeq(mask, 1, 2)) * PositionSizes(SubSeq(mask, 3, Len(mask)))
    ELSE PositionSizes(Tail(mask))

\* C23: for a valid mask validate_mask_pattern reports as
\* estimated_combinations the product of the character-set sizes over all
\* positions, a repeated placeholder counting once per position.
C23_EstimateCountsEveryPosition ==
    (validation.pc = "done" /\ validation.is_valid)
        => validation.estimated_combinations = PositionSizes(validation.mask)

\* C24: parse_mask returns only for a non-empty mask in which every '?' is
\* followed by a class letter, and then with length = number of components;
\* for every other mask it raises.
C24_ParseRejectsMalformedMasks ==
    /\ parser.pc = "done"
         => /\ parser.mask # <<>>
            /\ WellFormed(parser.mask)
            /\ parser.length = Len(PositionSets(parser.mask))
    /\ parser.pc = "raised" => (parser.mask = <<>> \/ ~WellFormed(parser.mask))

RECURSIVE ProductFrom(_, _)
\* The strings that start with a character of chars, in the order of chars,
\* and go on with a string of tails, in the order of tails.
ProductFrom(chars, tails) ==
    IF chars = <<>> THEN <<>>
    ELSE [j \in DOMAIN tails |-> <<Head(chars)>> \o tails[j]]
         \o ProductFrom(Tail(chars), tails)

RECURSIVE MaskProduct(_)
\* The Cartesian product of per-position character sets in lexicographic
\* order, the last position varying fastest.
MaskProduct(sets) ==
    IF sets = <<>> THEN << <<>> >>
    ELSE ProductFrom(Head(sets), MaskProduct(Tail(sets)))

\* The combinations of the hybrid's mask, and the distinct words of its
\* wordlist in the order of their first lines.
HybridCombinations == MaskProduct(PositionSets(hybrid.mask))
HybridWords == DictionaryPass(hybrid, FALSE).out

\* C25: a finished dictionary_mask generation has yielded, word after word,
\* W+M for every combination M of the mask in order and then M+W for every
\* M in order: 2 x |distinct words| x |mask combinations| candidates.
C25_DictionaryMaskStream ==
    (hybrid.pc = "done" /\ hybrid.hybrid_mode = "dictionary_mask"
     /\ WellFormed(hybrid.mask))
        => LET n == Len(HybridCombinations)
           IN /\ Len(hybrid.out) = 2 * Len(HybridWords) * n
              /\ \A w \in DOMAIN HybridWords : \A k \in 1..n :
                    /\ hybrid.out[(w - 1) * 2 * n + k]
                         = HybridWords[w] \o HybridCombinations[k]
                    /\ hybrid.out[(w - 1) * 2 * n + n + k]
                         = HybridCombinations[k] \o HybridWords[w]

\* What the mask_dictionary mode is to yield for one word and one mask
\* combination M: nothing, two or three candidates, by the length of M.
VariantsOf(word, M) ==
    IF Len(M) <= 1 THEN <<>>
    ELSE IF Len(M) = 2 THEN <<word \o M, M \o word>>
    ELSE <<word \o M, M \o word,
           SubSeq(M, 1, Len(M) \div 2) \o word \o SubSeq(M, Len(M) \div 2 + 1, Len(M))>>

RECURSIVE VariantsOver(_, _)
VariantsOver(word, Ms) ==
    IF Ms = <<>> THEN <<>>
    ELSE VariantsOf(word, Head(Ms)) \o VariantsOver(word, Tail(Ms))

RECURSIVE VariantsOfAll(_, _)
VariantsOfAll(words, Ms) ==
    IF words = <<>> THEN <<>>
    ELSE VariantsOver(Head(words), Ms) \o VariantsOfAll(Tail(words), Ms)

\* C26: a finished mask_dictionary generation has yielded, for every word
\* and every combination M of the mask, nothing when len(M) <= 1, word+M and
\* M+word when len(M) = 2, and also M[:mid]+word+M[mid:] when len(M) > 2; a
\* mask of length 1 gives an empty stream.
C26_MaskDictionaryStream ==
    (hybrid.pc = "done" /\ hybrid.hybrid_mode = "mask_dictionary"
     /\ WellFormed(hybrid.mask))
        => /\ hybrid.out = VariantsOfAll(HybridWords, HybridCombinations)
           /\ Len(PositionSets(hybrid.mask)) = 1 => hybrid.out = <<>>

\* The two passes of the rules_brute mode.
RulesPass == DictionaryPass(hybrid, TRUE).out
BrutePass == IF hybrid.mask # <<>> THEN mask_combinations(hybrid) ELSE <<>>

\* C27: in rules_brute mode the candidates yielded so far are the start of
\* the rules-enabled dictionary pass followed by the brute-force pass over
\* the mask (no brute-force pass without a mask), and a finished generation
\* has yielded all of both.
C27_RulesThenBrute ==
    (hybrid.hybrid_mode = "rules_brute" /\ hybrid.pc \in {"running", "done"})
        => /\ Len(hybrid.out) <= Len(RulesPass) + Len(BrutePass)
           /\ \A i \in DOMAIN hybrid.out :
                 hybrid.out[i] = IF i <= Len(RulesPass) THEN RulesPass[i]
                                 ELSE BrutePass[i - Len(RulesPass)]
           /\ hybrid.pc = "done" => Len(hybrid.out) = Len(RulesPass) + Len(BrutePass)

\* Both passes gave candidates and the generation finished.
C27_Witness ==
    /\ hybrid.pc = "done"
    /\ hybrid.hybrid_mode = "rules_brute"
    /\ RulesPass # <<>>
    /\ Len(BrutePass) > 1
    /\ Len(hybrid.out) = Len(RulesPass) + Len(BrutePass)

\* C28: a HybridAttack in a mask-dependent mode is never built without a
\* mask: the constructor raises instead.
C28_MaskModeNeedsMaskAtConstruction ==
    (hybrid.hybrid_mode \in {"dictionary_mask", "mask_dictionary"} /\ hybrid.mask = <<>>)
        => hybrid.pc \in {"unbuilt", "construct_raised"}

\* C29: the attempt counter of a strategy is 0 when no method was called
\* yet; a verify_candidate call adds exactly 1 to it, whatever the call gives;
\* reset_stats makes it 0; set_target and generate_candidates leave it as it
\* is, so it decreases only by reset_stats.
C29_AttemptsCountVerifyCalls ==
    /\ [](last_call = NoCall => strategy_attempts = 0)
    /\ [][CASE last_call'.op = "verify_candidate" ->
                 strategy_attempts' = strategy_attempts + 1
            [] last_call'.op = "reset_stats" -> strategy_attempts' = 0
            [] OTHER -> strategy_attempts' = strategy_attempts]_vars

\* Two verify_candidate calls were counted, the second one a match.
C29_Witness ==
    /\ last_call.op = "verify_candidate"
    /\ last_call.matched
    /\ strategy_attempts = 2

RECURSIVE VerificationCalls(_)
\* The verification calls made so far by the first n workers.
VerificationCalls(n) ==
    IF n = 0 THEN 0 ELSE workers[n].calls + VerificationCalls(n - 1)

\* C30: no callback is invoked when none was supplied; two successive
\* invocations are more than PROGRESS_INTERVAL (0.5 s) apart; the attempts
\* handed over never decrease from one invocation to the next, are never
\* more than the engine's accumulated total and never more than the
\* verification calls the workers have made.
C30_ProgressThrottledAndTruthful ==
    LET calls == progress.calls
    IN /\ ~progress.callback => calls = <<>>
       /\ \A i \in DOMAIN calls :
            /\ i > 1 => /\ calls[i].now - calls[i - 1].now > PROGRESS_INTERVAL
                        /\ calls[i].attempts >= calls[i - 1].attempts
            /\ calls[i].attempts <= total_attempts
            /\ calls[i].attempts <= VerificationCalls(Len(workers))

\* The callback was invoked twice in one run, the second time with more
\* attempts than the first.
C30_Witness ==
    /\ Len(progress.calls) = 2
    /\ progress.calls[1].attempts > 0
    /\ progress.calls[2].attempts > progress.calls[1].attempts

\* The positions of crack_hash from the start loop to the last statement
\* before a return: the Running state.
RunningPcs ==
    {"starting", "alive_check", "get_result", "found_join", "drain_stats",
     "check_timeout", "interrupt_join"}

TerminalStates == {"Found", "Exhausted", "TimedOut", "Interrupted"}

\* crack_hash is over: it returned or an exception left it.
RunEnded == epc \in {"done", "raised"}

WorkerStep ==
    /\ Len(workers') = Len(workers)
    /\ workers' # workers

\* q2 is q1 or q1 with one message put at its end.
PutOrSame(q1, q2) ==
    \/ q2 = q1
    \/ Len(q2) = Len(q1) + 1 /\ SubSeq(q2, 1, Len(q1)) = q1

\* C32: the stop event changes only by the engine setting it, on the way to
\* Found, TimedOut or Interrupted; a step of a worker leaves the stop event
\* as it is and at most puts a message at the end of the result queue or of
\* the stats queue; messages are taken off the queues only by steps of the
\* engine.
C32_SingleWriterOfStopEvent ==
    [][/\ stop_event' # stop_event =>
            /\ stop_event'
            /\ ~WorkerStep
            /\ \/ epc = "get_result" /\ epc' = "found_join"
               \/ epc = "check_timeout" /\ outcome' = "TimedOut"
               \/ epc \in InTry /\ epc' = "interrupt_join"
       /\ WorkerStep =>
            /\ stop_event' = stop_event
            /\ PutOrSame(result_queue, result_queue')
            /\ PutOrSame(stats_queue, stats_queue')
            /\ epc' = epc
            /\ total_attempts' = total_attempts
       /\ (~PutOrSame(result_queue, result_queue')
             \/ ~PutOrSame(stats_queue, stats_queue')) =>
            /\ workers' = workers
            /\ epc \in {"get_result", "drain_stats"}]_vars

\* The engine has set the stop event on a timeout while a worker had put a
\* stats message and a result message.
C32_Witness ==
    /\ stop_event
    /\ outcome = "TimedOut"
    /\ \E w \in DOMAIN workers : Len(workers[w].sent) >= 2

\* C33: in every crack_hash call, the first on an engine or a later one, the
\* stop event is clear from the start of the call up to the point where the
\* engine sets it in this call (a 'found' message, the timeout or an
\* interrupt), and a worker of the call sees it set only after that.
C33_StopEventClearAtStartOfCall ==
    /\ epc \in {"chunking", "starting", "alive_check", "get_result",
                "drain_stats", "check_timeout"} => ~stop_event
    /\ \A w \in DOMAIN workers :
         workers[w].saw_stop =>
             (found_received # <<>> \/ interrupted \/ outcome = "TimedOut")

\* Message m was put on the result queue by a worker of the current call.
SentByThisCall(m) ==
    \E w \in DOMAIN workers : \E i \in DOMAIN workers[w].sent :
        workers[w].sent[i] = <<"result", m>>

RECURSIVE StatsSentBy(_)
\* The attempts of the stats messages put by the first n workers of the
\* current call.
StatsSentBy(n) ==
    IF n = 0 THEN 0 ELSE StatsSent(workers[n].sent) + StatsSentBy(n - 1)

\* C34: in every call, the 'found' messages the engine has taken were put by
\* workers of this call, the attempts it has accumulated are attempts that
\* workers of this call reported, and a success result carries a candidate
\* of one of this call's chunks that verifies against this call's target.
C34_ResultOnlyFromThisCall ==
    /\ \A i \in DOMAIN found_received : SentByThisCall(found_received[i])
    /\ total_attempts <= StatsSentBy(Len(workers))
    /\ (epc = "done" /\ ret.success) =>
         /\ verify(ret.password, normalize_hash(target_hash))
         /\ \E w \in DOMAIN workers : \E i \in DOMAIN workers[w].chunk :
              strategy_stream[workers[w].chunk[i]] = ret.password

\* Worker w has made a verification call that raised.
VerifyRaised(w) ==
    \E i \in DOMAIN workers[w].tested :
        verify_raises(strategy_stream[workers[w].tested[i]])

\* Worker w has made a verification call that returned True.
VerifyMatched(w) ==
    \E i \in DOMAIN workers[w].tested :
        /\ ~verify_raises(strategy_stream[workers[w].tested[i]])
        /\ Matches(workers[w].tested[i])

\* C35: a worker that is still running has put no result message; a worker
\* whose run() is over has put exactly one, as its last message: a 'found'
\* message if and only if a candidate it tested verified, else a 'not found'
\* message with its local attempt count and with an error text if and only
\* if a verification call raised.
C35_OneResultMessagePerWorker ==
    \A w \in DOMAIN workers :
        LET me == workers[w]
            exited == me.pc \in {"finished", "dead"}
        IN /\ ResultsSent(w) = (IF exited THEN 1 ELSE 0)
           /\ exited =>
                LET last == me.sent[Len(me.sent)]
                IN /\ last[1] = "result"
                   /\ last[2].found <=> VerifyMatched(w)
                   /\ last[2].found => last[2].error = NoError
                   /\ ~last[2].found =>
                        /\ last[2].attempts = me.attempts
                        /\ last[2].error # NoError <=> VerifyRaised(w)

\* A worker that stopped on the stop event with candidates left untested,
\* after reporting attempts, has exited with its 'not found' message put.
C35_Witness ==
    \E w \in DOMAIN workers :
        /\ workers[w].pc = "dead"
        /\ workers[w].saw_stop
        /\ workers[w].attempts >= REPORT_INTERVAL
        /\ Len(workers[w].tested) < Len(workers[w].chunk)
        /\ ResultsSent(w) = 1
        /\ ~FoundSent(w)

\* C36: under a fair schedule, a crack_hash call that was made returns its
\* CrackingResult eventually, and every worker that was started exits
\* eventually.
C36_EveryCallReturns ==
    /\ (epc # "idle") ~> (epc = "done")
    /\ \A w \in 1..MaxWorkers :
         (w \in DOMAIN workers) ~> (w \in DOMAIN workers /\ ~is_alive(w))

\* A call has returned Exhausted: every worker has exited with all its
\* candidates tested, one of them after at least two verification calls.
C36_Witness ==
    /\ epc = "done"
    /\ outcome = "Exhausted"
    /\ workers # <<>>
    /\ \A w \in DOMAIN workers :
         /\ ~is_alive(w)
         /\ Len(workers[w].tested) = Len(workers[w].chunk)
    /\ \E w \in DOMAIN workers : workers[w].calls >= 2

\* C37: for every mask and every choice of min_length and max_length, a
\* finished generation has yielded as many candidates as total_combinations
\* says.
C37_TotalIsNumberYielded ==
    brute.pc = "done" => brute.total_combinations = Len(brute.out)

\* C38: for a mask handed to both, the per-position character sets, the
\* candidate sequence and the total of a BruteForceAttack are those of
\* MaskParser.parse_mask and MaskExpander.generate_combinations.
C38_BruteForceAgreesWithMaskGrammar ==
    (brute.pc = "done" /\ parser.pc = "done")
        => /\ Pools(brute) = character_sets_of(parser.components)
           /\ brute.out = generate_combinations(parser.components)
           /\ brute.total_combinations = parser.total_combinations

\* C39: the answer of an expand_mask call is the parse of its mask under
\* the character sets in force at the call, what a MaskParser built then
\* gives; and an instance through which no character set was registered
\* parses every mask as the class was defined to.
C39_CacheCoherentRegistryPerInstance ==
    /\ expander.last.op = "expand_mask" =>
         LET fresh == parse_mask("another MaskParser", expander.last.mask)
         IN /\ expander.last.raised = fresh.raised
            /\ expander.last.sets = fresh.sets
    /\ \A inst \in Instances :
         expander.custom_charsets[inst] = {} =>
             \A mask \in ExpandMasks : parse_mask(inst, mask) = ParsedBuiltIn(mask)

\* The number of places of sequence q that hold x.
OccurrencesIn(q, x) == Cardinality({i \in DOMAIN q : q[i] = x})

\* The number of places task id t is in: the pending queue, the assignment
\* of a worker, the completed list.
PlacesOf(t) ==
    OccurrencesIn(scheduler.task_queue, t)
    + Cardinality({w \in DOMAIN scheduler.worker_assignments :
                      scheduler.worker_assignments[w] = t})
    + OccurrencesIn(scheduler.completed_tasks, t)

\* C40: every created task is in exactly one place; an assignment w -> t
\* means task t has status 'assigned' and assigned_worker w; and a task
\* that assign_task took off the queue had the highest priority of the
\* pending tasks and was the oldest of that priority.
C40_EveryTaskInOnePlace ==
    /\ \A t \in 0..(scheduler.total_tasks_created - 1) : PlacesOf(t) = 1
    /\ \A w \in DOMAIN scheduler.worker_assignments :
         LET task == scheduler.tasks[scheduler.worker_assignments[w] + 1]
         IN task.status = "assigned" /\ task.assigned_worker = w
    /\ (scheduler.last.op = "assign_task" /\ scheduler.last.popped) =>
         \A i \in DOMAIN scheduler.last.queue :
            LET other == scheduler.last.queue[i]
                mine == scheduler.last.task_id
            IN \/ scheduler.tasks[mine + 1].priority > scheduler.tasks[other + 1].priority
               \/ /\ scheduler.tasks[mine + 1].priority = scheduler.tasks[other + 1].priority
                  /\ mine <= other

====
